---- MODULE Spec2Model ----
(***************************************************************************)
(* A model of fredli74/cmdparser (src/cmdparser.go): the option and        *)
(* command registries, the typed option values with their text codecs,     *)
(* the preferences document, and Parse as a state machine (load, one step  *)
(* per iteration of the argument loop, post-scan dispatch).                *)
(*                                                                         *)
(* Text is a sequence of one-character strings, so that the code's tests   *)
(* on characters (os.Args[i][0] == '-', strings.Split on "=") and the      *)
(* strconv / base64 / json conversions are computed, not assumed.          *)
(***************************************************************************)
EXTENDS Integers, Sequences, FiniteSets, TLC

VARIABLES
    commandList,   \* []*CmdCommand, in registration order
    optionList,    \* []*CmdOption, in registration order (with the bound variables' values)
    Title,         \* var Title string
    OptionsFile,   \* var OptionsFile string
    fileData,      \* contents of the file named by OptionsFile
    osArgs,        \* os.Args
    Args,          \* var Args []string
    pc,            \* position of the process in Parse
    i,             \* loop index of Parse (0-based, as in the code)
    stopParsing,   \* local of Parse
    doSave,        \* local of Parse
    doShow,        \* local of Parse
    ret,           \* what the last call of Parse (or of Set) returned
    called,        \* command handlers invoked, in order (places in commandList)
    changed,       \* on-change callbacks fired, in order (option names)
    saved,         \* on-save callbacks fired, in order (option names)
    stdout,        \* what was printed, in order
    calls,         \* number of Parse calls started
    registered     \* optionList as it was when registration ended (never changes)

vars == <<commandList, optionList, Title, OptionsFile, fileData, osArgs, Args,
          pc, i, stopParsing, doSave, doShow, ret, called, changed, saved,
          stdout, calls, registered>>

\* bounds of the model
MaxCalls == 2
MaxArgs == 5
MaxCommandArgs == 3
MaxListLen == 2
MaxOptions == 2

(***************************************************************************)
(* Text helpers                                                            *)
(***************************************************************************)
DigitChars == <<"0", "1", "2", "3", "4", "5", "6", "7", "8", "9">>
HexLower == <<"a", "b", "c", "d", "e", "f">>
HexUpper == <<"A", "B", "C", "D", "E", "F">>

Range(s) == {s[k] : k \in DOMAIN s}

IndexOf(seq, c) == CHOOSE k \in DOMAIN seq : seq[k] = c

IsDigit(c) == c \in Range(DigitChars)

\* the value of character c as a digit of any base up to 16, or 99
DigitVal(c) ==
    IF c \in Range(DigitChars) THEN IndexOf(DigitChars, c) - 1
    ELSE IF c \in Range(HexLower) THEN IndexOf(HexLower, c) + 9
    ELSE IF c \in Range(HexUpper) THEN IndexOf(HexUpper, c) + 9
    ELSE 99

Drop(s, n) == SubSeq(s, n + 1, Len(s))
Take(s, n) == SubSeq(s, 1, n)

RECURSIVE StripLeadingZeros(_)
StripLeadingZeros(s) ==
    IF s # <<>> /\ Head(s) = "0" THEN StripLeadingZeros(Tail(s)) ELSE s

RECURSIVE StripTrailingZeros(_)
StripTrailingZeros(s) ==
    IF s # <<>> /\ s[Len(s)] = "0" THEN StripTrailingZeros(Take(s, Len(s) - 1)) ELSE s

RECURSIVE Zeros(_)
Zeros(n) == IF n <= 0 THEN <<>> ELSE <<"0">> \o Zeros(n - 1)

\* decimal digits of a natural number
RECURSIVE Digits(_)
Digits(n) ==
    IF n < 10 THEN <<DigitChars[n + 1]>>
    ELSE Digits(n \div 10) \o <<DigitChars[(n % 10) + 1]>>

\* lexicographic a > b for digit texts of the same length
RECURSIVE DigitsGreater(_, _)
DigitsGreater(a, b) ==
    IF a = <<>> THEN FALSE
    ELSE IF DigitVal(Head(a)) # DigitVal(Head(b)) THEN DigitVal(Head(a)) > DigitVal(Head(b))
    ELSE DigitsGreater(Tail(a), Tail(b))

RECURSIVE Join(_, _)
Join(parts, sep) ==
    IF parts = <<>> THEN <<>>
    ELSE IF Len(parts) = 1 THEN parts[1]
    ELSE parts[1] \o sep \o Join(Tail(parts), sep)

\* strings.Split(s, sep) for a one-character separator: every separator cuts
RECURSIVE SplitAcc(_, _, _)
SplitAcc(s, sep, cur) ==
    IF s = <<>> THEN <<cur>>
    ELSE IF Head(s) = sep THEN <<cur>> \o SplitAcc(Tail(s), sep, <<>>)
    ELSE SplitAcc(Tail(s), sep, cur \o <<Head(s)>>)

Split(s, sep) == SplitAcc(s, sep, <<>>)

(***************************************************************************)
(* strconv.ParseBool                                                       *)
(***************************************************************************)
BoolTrueTexts ==
    { <<"1">>, <<"t">>, <<"T">>, <<"T", "R", "U", "E">>, <<"t", "r", "u", "e">>,
      <<"T", "r", "u", "e">> }
BoolFalseTexts ==
    { <<"0">>, <<"f">>, <<"F">>, <<"F", "A", "L", "S", "E">>,
      <<"f", "a", "l", "s", "e">>, <<"F", "a", "l", "s", "e">> }

\* returns the value (false on error) and whether an error was returned
ParseBool(s) ==
    IF s \in BoolTrueTexts THEN [v |-> TRUE, err |-> FALSE]
    ELSE IF s \in BoolFalseTexts THEN [v |-> FALSE, err |-> FALSE]
    ELSE [v |-> FALSE, err |-> TRUE]

(***************************************************************************)
(* strconv.ParseInt(s, 0, 64) and the text of an int64                     *)
(*                                                                         *)
(* An int64 is a pair (n, sat): sat = 0 and n the number, or sat = 1 / -1  *)
(* for the largest / smallest int64, which ParseInt returns with a range   *)
(* error.  The int64 limits are compared as digit texts.                   *)
(* Base 0 chooses the base as the comment of IntOption states it: 16      *)
(* after "0x", 8 after a leading "0", otherwise 10.  The prefixes "0b"    *)
(* and "0o" and the "_" separators that Go 1.13 added to base 0 are not   *)
(* modelled; no text of the families below uses them.                      *)
(***************************************************************************)
MaxInt64Text ==
    <<"9", "2", "2", "3", "3", "7", "2", "0", "3", "6", "8", "5", "4", "7", "7",
      "5", "8", "0", "7">>
MinInt64Magnitude ==
    <<"9", "2", "2", "3", "3", "7", "2", "0", "3", "6", "8", "5", "4", "7", "7",
      "5", "8", "0", "8">>

\* DigitsValue that weighs every digit as a decimal one
RECURSIVE DigitsValueDecimal(_, _, _)
DigitsValueDecimal(digs, base, acc) ==
    IF digs = <<>> THEN acc
    ELSE DigitsValueDecimal(Tail(digs), base, acc * 10 + DigitVal(Head(digs)))

RECURSIVE DigitsValue(_, _, _)
DigitsValue(digs, base, acc) ==
    IF digs = <<>> THEN acc
    ELSE DigitsValue(Tail(digs), base, acc * base + DigitVal(Head(digs)))

ValidDigits(digs, base) ==
    digs # <<>> /\ \A k \in DOMAIN digs : DigitVal(digs[k]) < base

\* the magnitude written by digs in base is outside int64 for the given sign
OutOfRange(digs, base, neg) ==
    LET d == StripLeadingZeros(digs) IN
    IF base = 10 THEN
        \/ Len(d) > 19
        \/ Len(d) = 19 /\ DigitsGreater(d, IF neg THEN MinInt64Magnitude ELSE MaxInt64Text)
    ELSE IF base = 16 THEN
        \/ Len(d) > 16
        \/ Len(d) = 16 /\ DigitVal(d[1]) >= 8 /\ ~(neg /\ d = <<"8">> \o Zeros(15))
    ELSE
        \/ Len(d) > 22
        \/ Len(d) = 22 /\ ~(neg /\ d = <<"1">> \o Zeros(21))

\* the decimal digits are exactly those of the largest / smallest int64
AtLimit(digs, base, neg) ==
    /\ base = 10
    /\ StripLeadingZeros(digs) = IF neg THEN MinInt64Magnitude ELSE MaxInt64Text

IntSyntaxError == [n |-> 0, sat |-> 0, err |-> TRUE]

ParseInt(s) ==
    IF s = <<>> THEN IntSyntaxError
    ELSE
    LET neg  == Head(s) = "-"
        body == IF Head(s) \in {"+", "-"} THEN Tail(s) ELSE s
    IN
    IF body = <<>> THEN IntSyntaxError
    ELSE
    LET hex  == Head(body) = "0" /\ Len(body) > 1 /\ body[2] \in {"x", "X"}
        base == IF hex THEN 16 ELSE IF Head(body) = "0" THEN 8 ELSE 10
        digs == IF hex THEN Drop(body, 2) ELSE body
    IN
    IF ~ValidDigits(digs, base) THEN IntSyntaxError
    ELSE IF OutOfRange(digs, base, neg)
    THEN [n |-> 0, sat |-> IF neg THEN -1 ELSE 1, err |-> TRUE]
    ELSE IF AtLimit(digs, base, neg)
    THEN [n |-> 0, sat |-> IF neg THEN -1 ELSE 1, err |-> FALSE]
    ELSE [n   |-> IF neg THEN 0 - DigitsValue(digs, base, 0) ELSE DigitsValue(digs, base, 0),
          sat |-> 0, err |-> FALSE]

\* fmt.Sprintf("%v", int64)
IntText(n, sat) ==
    IF sat = 1 THEN MaxInt64Text
    ELSE IF sat = -1 THEN <<"-">> \o MinInt64Magnitude
    ELSE IF n < 0 THEN <<"-">> \o Digits(0 - n)
    ELSE Digits(n)

(***************************************************************************)
(* float64 values, strconv.ParseFloat(s, 64) and fmt.Sprintf("%v", f)      *)
(*                                                                         *)
(* A finite float64 is kept as its shortest decimal: digs (no leading or   *)
(* trailing zero, empty for 0) and dp, the value being 0.digs * 10^dp, as  *)
(* in strconv's decimal.  Texts of more than 15 significant digits, whose  *)
(* binary rounding would matter, hexadecimal floats and digit separators   *)
(* are outside the inputs of the model.                                    *)
(***************************************************************************)
FloatRec(cls, neg, digs, dp) == [cls |-> cls, neg |-> neg, digs |-> digs, dp |-> dp]
FloatZero == FloatRec("fin", FALSE, <<>>, 0)
FloatNaN == FloatRec("nan", FALSE, <<>>, 0)
FloatInf(neg) == FloatRec("inf", neg, <<>>, 0)

\* normalise mantissa digits with the decimal point after position dp
RECURSIVE NormLeading(_, _)
NormLeading(digs, dp) ==
    IF digs # <<>> /\ Head(digs) = "0" THEN NormLeading(Tail(digs), dp - 1)
    ELSE [digs |-> digs, dp |-> dp]

NormFloat(neg, digs, dp) ==
    LET a == NormLeading(digs, dp)
        d == StripTrailingZeros(a.digs)
    IN IF d = <<>> THEN FloatRec("fin", neg, <<>>, 0) ELSE FloatRec("fin", neg, d, a.dp)

LowerChar(c) ==
    CASE c = "I" -> "i" [] c = "N" -> "n" [] c = "F" -> "f" [] c = "A" -> "a"
      [] c = "T" -> "t" [] c = "Y" -> "y" [] OTHER -> c

Lower(s) == [k \in DOMAIN s |-> LowerChar(s[k])]

AllDigits(s) == \A k \in DOMAIN s : IsDigit(s[k])

FloatSyntaxError == [f |-> FloatZero, err |-> TRUE]

MaxFloatExp10 == 308

\* mantissa text (digits with at most one point) and decimal exponent
FloatFromParts(neg, mant, exp10) ==
    LET parts == Split(mant, ".") IN
    IF Len(parts) > 2 \/ ~AllDigits(parts[1]) THEN FloatSyntaxError
    ELSE
    LET ip == parts[1]
        fp == IF Len(parts) = 2 THEN parts[2] ELSE <<>>
    IN
    IF ~AllDigits(fp) \/ (ip = <<>> /\ fp = <<>>) THEN FloatSyntaxError
    ELSE
    LET f == NormFloat(neg, ip \o fp, Len(ip) + exp10) IN
    IF f.digs # <<>> /\ f.dp - 1 > MaxFloatExp10 THEN [f |-> FloatInf(neg), err |-> TRUE]
    ELSE [f |-> f, err |-> FALSE]

ParseFloat(s) ==
    IF s = <<>> THEN FloatSyntaxError
    ELSE
    LET neg  == Head(s) = "-"
        body == IF Head(s) \in {"+", "-"} THEN Tail(s) ELSE s
        low  == Lower(body)
    IN
    IF low \in { <<"i", "n", "f">>, <<"i", "n", "f", "i", "n", "i", "t", "y">> }
    THEN [f |-> FloatInf(neg), err |-> FALSE]
    ELSE IF Lower(s) = <<"n", "a", "n">> THEN [f |-> FloatNaN, err |-> FALSE]
    ELSE IF body = <<>> THEN FloatSyntaxError
    ELSE
    LET eAt == {k \in DOMAIN body : body[k] \in {"e", "E"}} IN
    IF eAt = {} THEN FloatFromParts(neg, body, 0)
    ELSE
    LET k    == CHOOSE x \in eAt : \A y \in eAt : x <= y
        mant == Take(body, k - 1)
        ex   == Drop(body, k)
        eneg == ex # <<>> /\ Head(ex) = "-"
        edig == IF ex # <<>> /\ Head(ex) \in {"+", "-"} THEN Tail(ex) ELSE ex
    IN
    IF edig = <<>> \/ ~AllDigits(edig) \/ Len(edig) > 3 THEN FloatSyntaxError
    ELSE FloatFromParts(neg, mant,
                        IF eneg THEN 0 - DigitsValue(edig, 10, 0) ELSE DigitsValue(edig, 10, 0))

\* strconv's %e with all the digits: d.ddde+XX
FmtE(f) ==
    LET exp == f.dp - 1
        ed  == Digits(IF exp < 0 THEN 0 - exp ELSE exp)
    IN  <<Head(f.digs)>>
        \o (IF Len(f.digs) > 1 THEN <<".">> \o Tail(f.digs) ELSE <<>>)
        \o <<"e", IF exp < 0 THEN "-" ELSE "+">>
        \o (IF Len(ed) < 2 THEN <<"0">> \o ed ELSE ed)

\* strconv's %f with max(nd - dp, 0) decimals
FmtF(f) ==
    LET nd == Len(f.digs)
        ip == IF f.dp > 0
              THEN Take(f.digs, IF nd < f.dp THEN nd ELSE f.dp) \o Zeros(f.dp - nd)
              ELSE <<"0">>
        fp == IF nd > f.dp
              THEN Zeros(0 - f.dp) \o (IF f.dp > 0 THEN Drop(f.digs, f.dp) ELSE f.digs)
              ELSE <<>>
    IN  ip \o (IF fp # <<>> THEN <<".">> \o fp ELSE <<>>)

\* the exponent from which %v (shortest %g) switches to the %e form
GShortestPrec == 6

\* fmt.Sprintf("%v", float64): %g with the shortest precision
FloatText(f) ==
    IF f.cls = "nan" THEN <<"N", "a", "N">>
    ELSE IF f.cls = "inf" THEN <<IF f.neg THEN "-" ELSE "+", "I", "n", "f">>
    ELSE
    LET sign == IF f.neg THEN <<"-">> ELSE <<>> IN
    IF f.digs = <<>> THEN sign \o <<"0">>
    ELSE IF f.dp - 1 < -4 \/ f.dp - 1 >= GShortestPrec THEN sign \o FmtE(f)
    ELSE sign \o FmtF(f)

\* float64(n) for an int64 (exact below 2^53; the int64 limits round to 2^63)
IntToFloat(n, sat) ==
    IF sat # 0
    THEN FloatRec("fin", sat < 0,
                  <<"9", "2", "2", "3", "3", "7", "2", "0", "3", "6", "8", "5", "4", "7", "7", "6">>,
                  19)
    ELSE LET d == Digits(IF n < 0 THEN 0 - n ELSE n) IN NormFloat(n < 0, d, Len(d))

(***************************************************************************)
(* encoding/base64 StdEncoding.  A byte is a number 0..255.                *)
(***************************************************************************)
Base64Alphabet ==
    <<"A", "B", "C", "D", "E", "F", "G", "H", "I", "J", "K", "L", "M", "N", "O", "P",
      "Q", "R", "S", "T", "U", "V", "W", "X", "Y", "Z", "a", "b", "c", "d", "e", "f",
      "g", "h", "i", "j", "k", "l", "m", "n", "o", "p", "q", "r", "s", "t", "u", "v",
      "w", "x", "y", "z", "0", "1", "2", "3", "4", "5", "6", "7", "8", "9", "+", "/">>

B64Char(v) == Base64Alphabet[v + 1]
IsB64(c) == c \in Range(Base64Alphabet)
B64Val(c) == IndexOf(Base64Alphabet, c) - 1

RECURSIVE EncodeToString(_)
EncodeToString(b) ==
    IF b = <<>> THEN <<>>
    ELSE IF Len(b) = 1 THEN
        LET v == b[1] * 65536 IN
        <<B64Char(v \div 262144), B64Char((v \div 4096) % 64), "=", "=">>
    ELSE IF Len(b) = 2 THEN
        LET v == b[1] * 65536 + b[2] * 256 IN
        <<B64Char(v \div 262144), B64Char((v \div 4096) % 64), B64Char((v \div 64) % 64), "=">>
    ELSE
        LET v == b[1] * 65536 + b[2] * 256 + b[3] IN
        <<B64Char(v \div 262144), B64Char((v \div 4096) % 64), B64Char((v \div 64) % 64),
          B64Char(v % 64)>> \o EncodeToString(Drop(b, 3))

\* DecodeString: the bytes decoded before the first corrupt quantum, and
\* whether a CorruptInputError was returned
RECURSIVE DecodeString(_)
DecodeString(s) ==
    IF s = <<>> THEN [v |-> <<>>, err |-> FALSE]
    ELSE IF Len(s) < 4 \/ ~IsB64(s[1]) \/ ~IsB64(s[2]) THEN [v |-> <<>>, err |-> TRUE]
    ELSE
    LET last == Len(s) = 4
        v12  == B64Val(s[1]) * 262144 + B64Val(s[2]) * 4096
    IN
    IF s[3] = "=" THEN
        IF last /\ s[4] = "=" THEN [v |-> <<v12 \div 65536>>, err |-> FALSE]
        ELSE [v |-> <<>>, err |-> TRUE]
    ELSE IF ~IsB64(s[3]) THEN [v |-> <<>>, err |-> TRUE]
    ELSE IF s[4] = "=" THEN
        IF last
        THEN LET v == v12 + B64Val(s[3]) * 64 IN
             [v |-> <<v \div 65536, (v \div 256) % 256>>, err |-> FALSE]
        ELSE [v |-> <<>>, err |-> TRUE]
    ELSE IF ~IsB64(s[4]) THEN [v |-> <<>>, err |-> TRUE]
    ELSE
    LET v    == v12 + B64Val(s[3]) * 64 + B64Val(s[4])
        rest == DecodeString(Drop(s, 4))
    IN [v |-> <<v \div 65536, (v \div 256) % 256, v % 256>> \o rest.v, err |-> rest.err]

(***************************************************************************)
(* encoding/json for a []string: Marshal and Unmarshal of the array text.  *)
(* Only the quote and the backslash are escaped; the characters json       *)
(* writes as \uXXXX are outside the alphabet of the model.                 *)
(***************************************************************************)
RECURSIVE EscapeJSON(_)
EscapeJSON(s) ==
    IF s = <<>> THEN <<>>
    ELSE IF Head(s) \in {"\"", "\\"} THEN <<"\\", Head(s)>> \o EscapeJSON(Tail(s))
    ELSE <<Head(s)>> \o EscapeJSON(Tail(s))

QuoteJSON(s) == <<"\"">> \o EscapeJSON(s) \o <<"\"">>

MarshalStrings(l) ==
    <<"[">> \o Join([k \in DOMAIN l |-> QuoteJSON(l[k])], <<",">>) \o <<"]">>

\* reads a string body up to its closing quote: [ok, str, rest]
RECURSIVE ReadJSONString(_, _)
ReadJSONString(s, acc) ==
    IF s = <<>> THEN [ok |-> FALSE, str |-> acc, rest |-> <<>>]
    ELSE IF Head(s) = "\"" THEN [ok |-> TRUE, str |-> acc, rest |-> Tail(s)]
    ELSE IF Head(s) = "\\" THEN
        IF Len(s) >= 2 /\ s[2] \in {"\"", "\\"}
        THEN ReadJSONString(Drop(s, 2), acc \o <<s[2]>>)
        ELSE [ok |-> FALSE, str |-> acc, rest |-> <<>>]
    ELSE ReadJSONString(Tail(s), acc \o <<Head(s)>>)

RECURSIVE ReadJSONElements(_, _)
ReadJSONElements(s, acc) ==
    IF s = <<>> \/ Head(s) # "\"" THEN [ok |-> FALSE, v |-> <<>>]
    ELSE
    LET r == ReadJSONString(Tail(s), <<>>) IN
    IF ~r.ok \/ r.rest = <<>> THEN [ok |-> FALSE, v |-> <<>>]
    ELSE IF r.rest = <<"]">> THEN [ok |-> TRUE, v |-> acc \o <<r.str>>]
    ELSE IF Head(r.rest) = "," THEN ReadJSONElements(Tail(r.rest), acc \o <<r.str>>)
    ELSE [ok |-> FALSE, v |-> <<>>]

\* json.Unmarshal([]byte(v), &[]string): [ok, v]
UnmarshalStrings(s) ==
    IF s = <<>> \/ Head(s) # "[" THEN [ok |-> FALSE, v |-> <<>>]
    ELSE IF s = <<"[", "]">> THEN [ok |-> TRUE, v |-> <<>>]
    ELSE ReadJSONElements(Tail(s), <<>>)

(***************************************************************************)
(* optionValue: the six typed values.  One record shape for all kinds:     *)
(* b (bool), n/sat (int64), f (float64), s (the string's characters, the   *)
(* list's strings or the blob's bytes) and nil (a nil slice).              *)
(***************************************************************************)
Val(kind, b, n, sat, f, s, nil) ==
    [kind |-> kind, b |-> b, n |-> n, sat |-> sat, f |-> f, s |-> s, nil |-> nil]

BoolVal(b)     == Val("bool", b, 0, 0, FloatZero, <<>>, FALSE)
IntVal(n)      == Val("int", FALSE, n, 0, FloatZero, <<>>, FALSE)
IntSat(sat)    == Val("int", FALSE, 0, sat, FloatZero, <<>>, FALSE)
FloatVal(f)    == Val("float", FALSE, 0, 0, f, <<>>, FALSE)
StringVal(s)   == Val("string", FALSE, 0, 0, FloatZero, s, FALSE)
ListVal(l)     == Val("list", FALSE, 0, 0, FloatZero, l, FALSE)
ListNil        == Val("list", FALSE, 0, 0, FloatZero, <<>>, TRUE)
ByteVal(b)     == Val("byte", FALSE, 0, 0, FloatZero, b, FALSE)
ByteNil        == Val("byte", FALSE, 0, 0, FloatZero, <<>>, TRUE)

TrueText == <<"t", "r", "u", "e">>
FalseText == <<"f", "a", "l", "s", "e">>

\* optionValue.String()
String(v) ==
    CASE v.kind = "bool"   -> IF v.b THEN TrueText ELSE FalseText
      [] v.kind = "int"    -> IntText(v.n, v.sat)
      [] v.kind = "float"  -> FloatText(v.f)
      [] v.kind = "string" -> v.s
      [] v.kind = "list"   -> IF v.nil THEN <<>> ELSE MarshalStrings(v.s)
      [] v.kind = "byte"   -> EncodeToString(v.s)

\* optionValue.Reset()
Reset(v) ==
    CASE v.kind = "bool"   -> BoolVal(FALSE)
      [] v.kind = "int"    -> IntVal(0)
      [] v.kind = "float"  -> FloatVal(FloatZero)
      [] v.kind = "string" -> StringVal(<<>>)
      [] v.kind = "list"   -> ListNil
      [] v.kind = "byte"   -> ByteNil

\* a float parse that loses the sign
FloatParsedAbs(r) == [v |-> FloatVal([r.f EXCEPT !.neg = FALSE]), err |-> r.err]

\* optionValue.Set(s): the value afterwards and whether an error was returned.
\* The parsed value is stored also when the parse failed.
BoolParsed(r)  == [v |-> BoolVal(r.v), err |-> r.err]
IntParsed(r)   == [v |-> Val("int", FALSE, r.n, r.sat, FloatZero, <<>>, FALSE), err |-> r.err]
FloatParsed(r) == [v |-> FloatVal(r.f), err |-> r.err]
ByteParsed(r)  == [v |-> ByteVal(r.v), err |-> r.err]

Set(v, s) ==
    CASE v.kind = "bool"   -> BoolParsed(ParseBool(s))
      [] v.kind = "int"    -> IntParsed(ParseInt(s))
      [] v.kind = "float"  -> FloatParsed(ParseFloat(s))
      [] v.kind = "string" -> [v |-> StringVal(s), err |-> FALSE]
      [] v.kind = "list"   -> [v |-> ListVal(v.s \o <<s>>), err |-> FALSE]
      [] v.kind = "byte"   -> ByteParsed(DecodeString(s))

\* stringListOption.FromString(v): json.Unmarshal replaces the list, or
\* leaves it alone and returns an error
Unmarshalled(v, r) ==
    IF r.ok THEN [v |-> ListVal(r.v), err |-> FALSE] ELSE [v |-> v, err |-> TRUE]

FromString(v, text) == Unmarshalled(v, UnmarshalStrings(text))

(***************************************************************************)
(* JSON values as encoding/json decodes them into interface{}              *)
(***************************************************************************)
JSON(t, b, f, s, a) == [t |-> t, b |-> b, f |-> f, s |-> s, a |-> a]
JNull    == JSON("null", FALSE, FloatZero, <<>>, <<>>)
JObject  == JSON("object", FALSE, FloatZero, <<>>, <<>>)
JBool(b) == JSON("bool", b, FloatZero, <<>>, <<>>)
JNum(f)  == JSON("number", FALSE, f, <<>>, <<>>)
JStr(s)  == JSON("string", FALSE, FloatZero, s, <<>>)
JArr(a)  == JSON("array", FALSE, FloatZero, <<>>, a)
\* a value json.Marshal refuses (NaN, +Inf, -Inf)
JUnsupported == JSON("unsupported", FALSE, FloatZero, <<>>, <<>>)

\* optionValue.Get() as json.MarshalIndent writes it and a decoder reads it back
Get(v) ==
    CASE v.kind = "bool"   -> JBool(v.b)
      [] v.kind = "int"    -> JNum(IntToFloat(v.n, v.sat))
      [] v.kind = "float"  -> IF v.f.cls = "fin" THEN JNum(v.f) ELSE JUnsupported
      [] v.kind = "string" -> JStr(v.s)
      [] v.kind = "list"   -> IF v.nil THEN JNull ELSE JArr([k \in DOMAIN v.s |-> JStr(v.s[k])])
      [] v.kind = "byte"   -> IF v.nil THEN JNull ELSE JStr(EncodeToString(v.s))

\* fmt.Sprintf("%v", t) for a decoded JSON scalar
Sprintf(t) ==
    CASE t.t = "bool"   -> IF t.b THEN TrueText ELSE FalseText
      [] t.t = "number" -> FloatText(t.f)
      [] t.t = "string" -> t.s

(***************************************************************************)
(* Flags, commands and options                                             *)
(***************************************************************************)
Standard == 1
Preference == 2
Required == 4
Hidden == 8

\* flags & bit > 0
HasFlag(flags, bit) == (flags \div bit) % 2 = 1

\* Command(cmd, help, function): appends to commandList
Command(list, cmd, hasFunction) ==
    Append(list, [Command |-> cmd, Function |-> hasFunction])

\* addOption: appends to optionList, capturing the default text
addOption(list, name, cmd, variable, flags) ==
    Append(list, [Name |-> name, Group |-> cmd, Value |-> variable,
                  Default |-> String(variable), Flags |-> flags,
                  onChange |-> FALSE, onSave |-> FALSE])

\* CmdOption.OnChange / OnSave on the option registered last
OnChange(list) == [list EXCEPT ![Len(list)].onChange = TRUE]
OnSave(list) == [list EXCEPT ![Len(list)].onSave = TRUE]

\* CmdOption.doChange / doSave: the callback log after the call
doChange(o, log) == IF o.onChange THEN Append(log, o.Name) ELSE log
doSaveHook(o, log) == IF o.onSave THEN Append(log, o.Name) ELSE log

(***************************************************************************)
(* Preferences: jsonOptions, saveOptions, loadOptions                      *)
(*                                                                         *)
(* A document is a function from option names to JSON values.  The file    *)
(* is [exists, valid, doc]: valid says that it decodes as a JSON object.   *)
(***************************************************************************)
EmptyDoc == [x \in {} |-> JNull]

PutKey(doc, key, val) ==
    [x \in DOMAIN doc \cup {key} |-> IF x = key THEN val ELSE doc[x]]

NoFile == [exists |-> FALSE, valid |-> FALSE, doc |-> EmptyDoc]
FileOf(doc) == [exists |-> TRUE, valid |-> TRUE, doc |-> doc]
BadFile == [exists |-> TRUE, valid |-> FALSE, doc |-> EmptyDoc]

\* the option loop of jsonOptions, from option k on
RECURSIVE jsonOptionsFrom(_, _, _, _)
jsonOptionsFrom(opts, k, doc, log) ==
    IF k > Len(opts) THEN [doc |-> doc, saved |-> log]
    ELSE
    LET v == opts[k] IN
    IF HasFlag(v.Flags, Preference) /\ String(v.Value) # v.Default
    THEN jsonOptionsFrom(opts, k + 1, PutKey(doc, v.Name, Get(v.Value)), doSaveHook(v, log))
    ELSE jsonOptionsFrom(opts, k + 1, doc, log)

\* jsonOptions: the document, the on-save log, and json.MarshalIndent's error
Marshalled(r) ==
    [doc   |-> r.doc,
     saved |-> r.saved,
     err   |-> \E key \in DOMAIN r.doc : r.doc[key].t = "unsupported"]

jsonOptions(opts, log) == Marshalled(jsonOptionsFrom(opts, 1, EmptyDoc, log))

\* saveOptions: jsonOptions' error is overwritten by MkdirAll's, and whatever
\* jsonData holds (nothing after an error) is written to the truncated file
Written(r) ==
    [file  |-> IF r.err THEN BadFile ELSE FileOf(r.doc),
     saved |-> r.saved]

saveOptions(opts, log) == Written(jsonOptions(opts, log))

\* the elements of a JSON array applied with Set, from element k on;
\* s.(string) panics on an element that is no string
RECURSIVE SetEach(_, _, _)
SetNext(r, elems, k) ==
    IF r.err THEN [v |-> r.v, err |-> TRUE, panic |-> FALSE]
    ELSE SetEach(r.v, elems, k + 1)

SetEach(v, elems, k) ==
    IF k > Len(elems) THEN [v |-> v, err |-> FALSE, panic |-> FALSE]
    ELSE IF elems[k].t # "string" THEN [v |-> v, err |-> FALSE, panic |-> TRUE]
    ELSE SetNext(Set(v, elems[k].s), elems, k)

NoPanic(r) == [v |-> r.v, err |-> r.err, panic |-> FALSE]

\* the option loop of loadOptions, from option k on
RECURSIVE loadOptionsFrom(_, _, _, _)

\* option k after its value was applied with result r
LoadApplied(opts, k, doc, log, r) ==
    IF r.panic \/ r.err
    THEN [opts |-> [opts EXCEPT ![k].Value = r.v], changed |-> log,
          err |-> r.err, panic |-> r.panic]
    ELSE loadOptionsFrom([opts EXCEPT ![k].Value = r.v], k + 1, doc, doChange(opts[k], log))

\* the type switch on the decoded value t of option k
LoadKey(opts, k, doc, log, t) ==
    IF t.t = "null"
    THEN loadOptionsFrom([opts EXCEPT ![k].Value = Reset(opts[k].Value)], k + 1, doc, log)
    ELSE IF t.t = "object"
    THEN loadOptionsFrom(opts, k + 1, doc, log)
    ELSE IF t.t = "array"
    THEN LoadApplied(opts, k, doc, log, SetEach(Reset(opts[k].Value), t.a, 1))
    ELSE LoadApplied(opts, k, doc, log, NoPanic(Set(opts[k].Value, Sprintf(t))))

loadOptionsFrom(opts, k, doc, log) ==
    IF k > Len(opts) THEN [opts |-> opts, changed |-> log, err |-> FALSE, panic |-> FALSE]
    ELSE IF opts[k].Name \notin DOMAIN doc THEN loadOptionsFrom(opts, k + 1, doc, log)
    ELSE LoadKey(opts, k, doc, log, doc[opts[k].Name])

\* a Parse that never reads the preferences file
loadOptionsSkipped(opts, file, log) ==
    [opts |-> opts, changed |-> log, err |-> FALSE, panic |-> FALSE]

\* loadOptions: a file that cannot be opened is no error
loadOptions(opts, file, log) ==
    IF ~file.exists THEN [opts |-> opts, changed |-> log, err |-> FALSE, panic |-> FALSE]
    ELSE IF ~file.valid THEN [opts |-> opts, changed |-> log, err |-> TRUE, panic |-> FALSE]
    ELSE loadOptionsFrom(opts, 1, file.doc, log)

(***************************************************************************)
(* Parse                                                                   *)
(***************************************************************************)
\* what Parse returned: err is "nil" or the kind of error, with the option
\* or command name and the offending text of the message
Returned(err, name, text) == [err |-> err, name |-> name, text |-> text]
NotReturned == Returned("none", <<>>, <<>>)
ReturnedNil == Returned("nil", <<>>, <<>>)

\* help aliases without the upper-case one
HelpAliasesLower == { <<"-", "?">>, <<"-", "h">> }

HelpAliases == { <<"-", "?">>, <<"-", "h">>, <<"-", "H">> }
VersionFlag == <<"-", "v", "e", "r", "s", "i", "o", "n">>
DashDash == <<"-", "-">>
SaveOptionsFlag == <<"-", "s", "a", "v", "e", "o", "p", "t", "i", "o", "n", "s">>
ShowOptionsFlag == <<"-", "s", "h", "o", "w", "o", "p", "t", "i", "o", "n", "s">>

\* the first option of that name (its index in optionList), 0 for none
FindOption(opts, name) ==
    IF \E k \in DOMAIN opts : opts[k].Name = name
    THEN CHOOSE k \in DOMAIN opts :
             opts[k].Name = name /\ \A j \in DOMAIN opts : opts[j].Name = name => k <= j
    ELSE 0

\* the value of an option token without "=", by lookahead at os.Args[i+1]:
\* the pair, the tokens consumed, the option's value, or a panic on the
\* first character of an empty next token
Lookahead(option, pair, args, at) ==
    LET hasNext == at < Len(args) - 1
        next    == args[at + 2]
        out(p, n, v) == [panic |-> FALSE, pair |-> p, skip |-> n, value |-> v]
    IN
    IF hasNext /\ next = <<>>
    THEN [panic |-> TRUE, pair |-> pair, skip |-> 0, value |-> option.Value]
    ELSE
    LET isValue == hasNext /\ Head(next) # "-" IN
    IF option.Value.kind = "bool" THEN
        IF isValue /\ ~ParseBool(next).err
        THEN out(Append(pair, next), 1, option.Value)
        ELSE out(Append(pair, TrueText), 0, option.Value)
    ELSE IF option.Value.kind = "list" THEN
        IF isValue
        THEN out(Append(pair, next), 1, option.Value)
        ELSE out(pair, 0, FromString(option.Value, option.Default).v)
    ELSE
        IF isValue
        THEN out(Append(pair, next), 1, option.Value)
        ELSE out(Append(pair, option.Default), 0, option.Value)

\* the option after Set returned r: doChange unless Set failed
Applied(option, log, r) ==
    IF r.err THEN [value |-> r.v, err |-> TRUE, changed |-> log]
    ELSE [value |-> r.v, err |-> FALSE, changed |-> doChange(option, log)]

\* a pair of exactly two parts is applied: Reset for an empty value, Set
\* otherwise
ApplyPair(option, pair, log) ==
    IF Len(pair) # 2 THEN [value |-> option.Value, err |-> FALSE, changed |-> log]
    ELSE IF pair[2] = <<>>
    THEN [value |-> Reset(option.Value), err |-> FALSE, changed |-> doChange(option, log)]
    ELSE Applied(option, log, Set(option.Value, pair[2]))

\* the state of a Parse call that one iteration of the loop reads and writes
Frame == [pc |-> pc, i |-> i, stopParsing |-> stopParsing, doSave |-> doSave,
          doShow |-> doShow, Args |-> Args, optionList |-> optionList, ret |-> ret,
          changed |-> changed, stdout |-> stdout]

\* the end of the option branch: the error of a failed Set is returned,
\* otherwise the loop goes on after the tokens consumed
ScanApplied(fr, k, look, r) ==
    IF r.err
    THEN [fr EXCEPT !.pc = "done",
                    !.optionList = [fr.optionList EXCEPT ![k].Value = r.value],
                    !.i = fr.i + look.skip,
                    !.ret = Returned("Invalid value", look.pair[1], look.pair[2])]
    ELSE [fr EXCEPT !.optionList = [fr.optionList EXCEPT ![k].Value = r.value],
                    !.changed = r.changed,
                    !.i = fr.i + look.skip + 1]

\* option k with the pair the lookahead produced
ScanLooked(fr, k, look) ==
    IF look.panic THEN [fr EXCEPT !.pc = "panic"]
    ELSE ScanApplied(fr, k, look,
                     ApplyPair([fr.optionList[k] EXCEPT !.Value = look.value],
                               look.pair, fr.changed))

\* the pair of the token, looked up in optionList as option k (0: none)
ScanFound(fr, args, pair, k) ==
    IF k = 0
    THEN [fr EXCEPT !.pc = "done", !.ret = Returned("Invalid option", pair[1], <<>>)]
    ELSE ScanLooked(fr, k,
                    IF Len(pair) < 2 THEN Lookahead(fr.optionList[k], pair, args, fr.i)
                    ELSE [panic |-> FALSE, pair |-> pair, skip |-> 0,
                          value |-> fr.optionList[k].Value])

ScanPair(fr, args, pair) == ScanFound(fr, args, pair, FindOption(fr.optionList, pair[1]))

\* the branch of the loop for a token that starts with "-"
ScanOption(fr, args) == ScanPair(fr, args, Split(Tail(args[fr.i + 1]), "="))

\* an option branch that ignores literal mode
IsOptionInLiteral(stop, tok) == tok # <<>> /\ Head(tok) = "-"

\* the test of the option branch: !stopParsing && os.Args[i][0] == '-'
IsOption(stop, tok) == ~stop /\ Head(tok) = "-"


\* one iteration of the loop over os.Args
ScanToken(fr, args, title, optionsFile) ==
    LET tok == args[fr.i + 1] IN
    IF ~fr.stopParsing /\ tok \in HelpAliases
    THEN [fr EXCEPT !.pc = "done", !.ret = ReturnedNil, !.stdout = Append(fr.stdout, "usage")]
    ELSE IF ~fr.stopParsing /\ tok = VersionFlag
    THEN [fr EXCEPT !.pc = "done", !.ret = ReturnedNil,
                    !.stdout = Append(fr.stdout, IF title # <<>> THEN "title" ELSE "no title")]
    ELSE IF ~fr.stopParsing /\ tok = DashDash
    THEN [fr EXCEPT !.stopParsing = TRUE, !.i = fr.i + 1]
    ELSE IF ~fr.stopParsing /\ optionsFile # <<>> /\ tok = SaveOptionsFlag
    THEN [fr EXCEPT !.doSave = TRUE, !.i = fr.i + 1]
    ELSE IF ~fr.stopParsing /\ optionsFile # <<>> /\ tok = ShowOptionsFlag
    THEN [fr EXCEPT !.doShow = TRUE, !.i = fr.i + 1]
    ELSE IF ~fr.stopParsing /\ tok = <<>>
    THEN [fr EXCEPT !.pc = "panic"]
    ELSE IF IsOption(fr.stopParsing, tok)
    THEN ScanOption(fr, args)
    ELSE [fr EXCEPT !.Args = Append(fr.Args, tok), !.i = fr.i + 1]

\* ResolveFrom with a break on every match: a default command registered
\* before the named one would win
RECURSIVE ResolveFromFirstMatch(_, _, _, _)
ResolveFromFirstMatch(cmds, args, k, command) ==
    IF k > Len(cmds) THEN command
    ELSE IF (Len(args) > 1 /\ cmds[k].Command = args[2]) \/ cmds[k].Command = <<>>
    THEN k
    ELSE ResolveFromFirstMatch(cmds, args, k + 1, command)

\* the command the loop over commandList selects (its index), 0 for none
RECURSIVE ResolveFrom(_, _, _, _)
ResolveFrom(cmds, args, k, command) ==
    IF k > Len(cmds) THEN command
    ELSE IF (Len(args) > 1 /\ cmds[k].Command = args[2]) \/ cmds[k].Command = <<>>
    THEN IF cmds[k].Command # <<>> THEN k ELSE ResolveFrom(cmds, args, k + 1, k)
    ELSE ResolveFrom(cmds, args, k + 1, command)

ResolveCommand(cmds, args) == ResolveFrom(cmds, args, 1, 0)

\* MissingRequired that looks at the global options only
MissingRequiredGlobal(opts) ==
    LET M == {k \in DOMAIN opts :
                 /\ HasFlag(opts[k].Flags, Required)
                 /\ opts[k].Group = <<>>
                 /\ String(opts[k].Value) = opts[k].Default}
    IN IF M = {} THEN 0 ELSE CHOOSE k \in M : \A j \in M : k <= j

\* the first Required option whose text is its default text, 0 for none
MissingRequired(opts) ==
    LET M == {k \in DOMAIN opts :
                 HasFlag(opts[k].Flags, Required) /\ String(opts[k].Value) = opts[k].Default}
    IN IF M = {} THEN 0 ELSE CHOOSE k \in M : \A j \in M : k <= j

\* Parse after loadOptions returned r: its error is returned, otherwise
\* the locals and Args are reset for the loop
Loaded(r) ==
    /\ optionList' = r.opts
    /\ changed' = r.changed
    /\ IF r.panic
       THEN /\ pc' = "panic"
            /\ UNCHANGED <<ret, Args, i, stopParsing, doSave, doShow>>
       ELSE IF r.err
       THEN /\ pc' = "done"
            /\ ret' = Returned("load", <<>>, <<>>)
            /\ UNCHANGED <<Args, i, stopParsing, doSave, doShow>>
       ELSE /\ pc' = "scan"
            /\ ret' = NotReturned
            /\ Args' = <<>>
            /\ i' = 0
            /\ stopParsing' = FALSE
            /\ doSave' = FALSE
            /\ doShow' = FALSE

\* Parse up to the loop: the preferences are loaded when OptionsFile is set
ParseBegin ==
    /\ pc \in {"idle", "done"}
    /\ calls < MaxCalls
    /\ calls' = calls + 1
    /\ called' = <<>>
    /\ saved' = <<>>
    /\ stdout' = <<>>
    /\ Loaded(IF OptionsFile # <<>> THEN loadOptions(optionList, fileData, <<>>)
              ELSE [opts |-> optionList, changed |-> <<>>, err |-> FALSE, panic |-> FALSE])
    /\ UNCHANGED <<commandList, Title, OptionsFile, fileData, osArgs, registered>>

Scanned(fr) ==
    /\ pc' = fr.pc
    /\ i' = fr.i
    /\ stopParsing' = fr.stopParsing
    /\ doSave' = fr.doSave
    /\ doShow' = fr.doShow
    /\ Args' = fr.Args
    /\ optionList' = fr.optionList
    /\ ret' = fr.ret
    /\ changed' = fr.changed
    /\ stdout' = fr.stdout

\* one iteration of the loop
ParseScan ==
    /\ pc = "scan"
    /\ i < Len(osArgs)
    /\ Scanned(ScanToken(Frame, osArgs, Title, OptionsFile))
    /\ UNCHANGED <<commandList, Title, OptionsFile, fileData, osArgs, called, saved, calls,
                   registered>>

\* Checked that calls the handler also when a Required option is missing
CheckedAfterCall(cmds, opts, command, n) ==
    [ret |-> IF n # 0 THEN Returned("Missing required option", opts[n].Name, <<>>)
             ELSE ReturnedNil,
     call |-> IF cmds[command].Function THEN command ELSE 0, usage |-> FALSE]

\* the Required check and the call of the handler of command (an index)
Checked(cmds, opts, command, n) ==
    IF n # 0
    THEN [ret |-> Returned("Missing required option", opts[n].Name, <<>>),
          call |-> 0, usage |-> FALSE]
    ELSE [ret |-> ReturnedNil,
          call |-> IF cmds[command].Function THEN command ELSE 0, usage |-> FALSE]

Resolved(cmds, opts, args, command) ==
    IF command # 0 THEN Checked(cmds, opts, command, MissingRequired(opts))
    ELSE IF Len(args) < 2
    THEN [ret |-> Returned("Missing required command", <<>>, <<>>), call |-> 0, usage |-> TRUE]
    ELSE [ret |-> Returned("not a valid command", args[2], <<>>), call |-> 0, usage |-> FALSE]

\* after the loop, without show or save: the command is resolved, the
\* Required options are checked and the handler is called
Dispatch(cmds, opts, args) == Resolved(cmds, opts, args, ResolveCommand(cmds, args))

Shown(r) ==
    /\ saved' = r.saved
    /\ ret' = IF r.err THEN Returned("json", <<>>, <<>>) ELSE ReturnedNil
    /\ stdout' = IF r.err THEN stdout ELSE Append(stdout, "options")
    /\ UNCHANGED <<fileData, called>>

Saved(r) ==
    /\ saved' = r.saved
    /\ fileData' = r.file
    /\ ret' = ReturnedNil
    /\ stdout' = Append(stdout, "Options saved")
    /\ UNCHANGED called

Dispatched(r) ==
    /\ ret' = r.ret
    /\ called' = IF r.call # 0 THEN Append(called, r.call) ELSE called
    /\ stdout' = IF r.usage THEN Append(stdout, "usage") ELSE stdout
    /\ UNCHANGED <<fileData, saved>>

\* Parse after the loop
ParseFinish ==
    /\ pc = "scan"
    /\ i >= Len(osArgs)
    /\ pc' = "done"
    /\ IF doShow THEN Shown(jsonOptions(optionList, saved))
       ELSE IF doSave THEN Saved(saveOptions(optionList, saved))
       ELSE Dispatched(Dispatch(commandList, optionList, Args))
    /\ UNCHANGED <<commandList, optionList, Title, OptionsFile, osArgs, Args, i,
                   stopParsing, doSave, doShow, changed, calls, registered>>

Next == ParseBegin \/ ParseScan \/ ParseFinish

\* the program calls Value.Set(s) on option k itself, outside Parse
SetOption(k, s, r) ==
    /\ pc = "idle"
    /\ optionList[k].Value.kind = "list" => Len(optionList[k].Value.s) < MaxListLen
    /\ optionList' = [optionList EXCEPT ![k].Value = r.v]
    /\ ret' = IF r.err THEN Returned("Invalid value", optionList[k].Name, s) ELSE ReturnedNil
    /\ UNCHANGED <<commandList, Title, OptionsFile, fileData, osArgs, Args, pc, i,
                   stopParsing, doSave, doShow, called, changed, saved, stdout, calls,
                   registered>>

(***************************************************************************)
(* The state when main calls Parse: the registries as the registration     *)
(* calls built them, the configuration, the file and the command line      *)
(***************************************************************************)
Start(cmds, opts, title, optionsFile, file, args) ==
    /\ commandList = cmds
    /\ optionList = opts
    /\ registered = opts
    /\ Title = title
    /\ OptionsFile = optionsFile
    /\ fileData = file
    /\ osArgs = args
    /\ Args = <<>>
    /\ pc = "idle"
    /\ i = 0
    /\ stopParsing = FALSE
    /\ doSave = FALSE
    /\ doShow = FALSE
    /\ ret = NotReturned
    /\ called = <<>>
    /\ changed = <<>>
    /\ saved = <<>>
    /\ stdout = <<>>
    /\ calls = 0

\* the command lines of a program name followed by up to max - 1 tokens
RECURSIVE SeqsUpTo(_, _)
SeqsUpTo(S, n) ==
    IF n = 0 THEN {<<>>}
    ELSE LET shorter == SeqsUpTo(S, n - 1) IN
         shorter \cup {Append(q, t) : q \in {x \in shorter : Len(x) = n - 1}, t \in S}

CommandLines(progs, tokens, max) ==
    {<<p>> \o rest : p \in progs, rest \in SeqsUpTo(tokens, max - 1)}

\* texts used on the command lines and in the registries
prog == <<"p", "r", "o", "g">>
copy == <<"c", "o", "p", "y">>
move == <<"m", "o", "v", "e">>
PrefsPath == <<"o", "p", "t", "s">>
TitleText == <<"T", "1">>

\* the token -name and the token -name=value
Flag(name) == <<"-">> \o name
FlagValue(name, value) == <<"-">> \o name \o <<"=">> \o value

(***************************************************************************)
(* SpecCommands: programs with a default, a copy and a move command in     *)
(* several registration orders, a boolean option and Required options of   *)
(* several groups and defaults                                             *)
(***************************************************************************)
CommandRegistries ==
    { <<>>,
      Command(<<>>, <<>>, TRUE),
      Command(<<>>, copy, TRUE),
      Command(Command(<<>>, <<>>, TRUE), copy, TRUE),
      Command(Command(<<>>, copy, TRUE), <<>>, TRUE),
      Command(Command(<<>>, copy, TRUE), move, TRUE),
      Command(Command(<<>>, copy, FALSE), <<>>, TRUE) }

OptionX == OnChange(addOption(<<>>, <<"x">>, <<>>, BoolVal(FALSE), Standard))

CommandOptionRegistries ==
    { OptionX,
      OnChange(addOption(OptionX, <<"u">>, <<>>, StringVal(<<>>), Required)),
      OnChange(addOption(OptionX, <<"u">>, <<>>, StringVal(<<"a">>), Required + Preference)),
      OnChange(addOption(OptionX, <<"n">>, move, IntVal(0), Required)) }

CommandTokens ==
    { copy, <<"z", "a", "p">>, Flag(<<"x">>), FlagValue(<<"u">>, <<"a">>),
      FlagValue(<<"u">>, <<"b">>), FlagValue(<<"n">>, <<"1">>), FlagValue(<<"n">>, <<"0">>) }

InitCommands ==
    \E cmds \in CommandRegistries, opts \in CommandOptionRegistries,
       args \in CommandLines({prog}, CommandTokens, MaxCommandArgs) :
        Start(cmds, opts, <<>>, <<>>, NoFile, args)

SpecCommands == InitCommands /\ [][Next]_vars

(***************************************************************************)
(* SpecLookahead: a boolean option followed by boolean texts, other texts, *)
(* the empty token and further option tokens                               *)
(***************************************************************************)
DefaultAndCopy == Command(Command(<<>>, <<>>, TRUE), copy, TRUE)

LookaheadTokens ==
    { Flag(<<"x">>), FalseText, <<"1">>, copy, <<>>, FlagValue(<<"x">>, FalseText) }

InitLookahead ==
    \E args \in CommandLines({prog}, LookaheadTokens, MaxArgs) :
        Start(DefaultAndCopy, OptionX, <<>>, <<>>, NoFile, args)

SpecLookahead == InitLookahead /\ [][Next]_vars

(***************************************************************************)
(* SpecLiteral: command lines that mix "--" with the built-in flags,       *)
(* registered and unregistered option tokens, values and the empty token,  *)
(* for a program with a title and a preferences file                       *)
(***************************************************************************)
OptionA == OnChange(addOption(<<>>, <<"a">>, <<>>, StringVal(<<>>), Standard + Preference))

LiteralTokens ==
    { DashDash, <<"-", "h">>, VersionFlag, SaveOptionsFlag, ShowOptionsFlag,
      Flag(<<"a">>), Flag(<<"b">>), <<"1">>, <<>> }

InitLiteral ==
    \E args \in CommandLines({prog}, LiteralTokens, MaxArgs) :
        Start(DefaultAndCopy, OptionA, TitleText, PrefsPath, NoFile, args)

SpecLiteral == InitLiteral /\ [][Next]_vars

(***************************************************************************)
(* SpecHelp: command lines with the help aliases among "--", the save      *)
(* sentinel, options and a command name, for a program with a Required     *)
(* option and a preferences file                                           *)
(***************************************************************************)
HelpOptions ==
    OnChange(addOption(OptionX, <<"u">>, <<>>, StringVal(<<>>), Required + Preference))

HelpTokens ==
    { <<"-", "h">>, <<"-", "H">>, <<"-", "?">>, DashDash, SaveOptionsFlag,
      Flag(<<"x">>), copy }

InitHelp ==
    \E args \in CommandLines({prog}, HelpTokens, MaxArgs) :
        Start(DefaultAndCopy, HelpOptions, <<>>, PrefsPath, NoFile, args)

SpecHelp == InitHelp /\ [][Next]_vars

(***************************************************************************)
(* SpecSplit: option tokens with no, one and several "=" for a string and  *)
(* a boolean option                                                        *)
(***************************************************************************)
OptionS == OnChange(addOption(OptionX, <<"s">>, <<>>, StringVal(<<>>), Standard))

SplitTokens ==
    { FlagValue(<<"s">>, <<"a", "=", "b">>), FlagValue(<<"s">>, <<"a">>),
      FlagValue(<<"s">>, <<>>), FlagValue(<<"s">>, <<"=">>), Flag(<<"s">>),
      <<"b">>, FlagValue(<<"x">>, <<"1">>) }

InitSplit ==
    \E args \in CommandLines({prog}, SplitTokens, MaxArgs) :
        Start(DefaultAndCopy, OptionS, <<>>, <<>>, NoFile, args)

SpecSplit == InitSplit /\ [][Next]_vars

(***************************************************************************)
(* SpecList: a string-list option registered nil, empty or with one        *)
(* element, given with and without values                                  *)
(***************************************************************************)
tag == <<"t", "a", "g">>

ListRegistries ==
    { OnChange(addOption(<<>>, tag, <<>>, v, Standard)) :
        v \in {ListNil, ListVal(<<>>), ListVal(<< <<"d">> >>)} }

ListTokens ==
    { Flag(tag), <<"a">>, <<"b">>, FlagValue(tag, <<"a">>), FlagValue(tag, <<>>),
      FlagValue(tag, <<"a", "=", "b">>) }

InitList ==
    \E opts \in ListRegistries, args \in CommandLines({prog}, ListTokens, MaxArgs) :
        Start(DefaultAndCopy, opts, <<>>, <<>>, NoFile, args)

SpecList == InitList /\ [][Next]_vars

(***************************************************************************)
(* SpecPrefs: one Preference option of each kind, command lines that set   *)
(* them and ask to save, starting without a preferences file               *)
(***************************************************************************)
Million == <<"1", "0", "0", "0", "0", "0", "0">>

PrefOption(list, name, variable) ==
    OnSave(OnChange(addOption(list, name, <<>>, variable, Preference)))

PrefRegistry ==
    PrefOption(PrefOption(PrefOption(PrefOption(PrefOption(PrefOption(<<>>,
        <<"b">>, BoolVal(FALSE)),
        <<"n">>, IntVal(0)),
        <<"f">>, FloatVal(FloatZero)),
        <<"s">>, StringVal(<<>>)),
        <<"k">>, ByteNil),
        <<"l">>, ListNil)

PrefTokens ==
    { SaveOptionsFlag, Flag(<<"b">>), FlagValue(<<"n">>, <<"5">>),
      FlagValue(<<"n">>, Million), FlagValue(<<"f">>, <<"1", ".", "5">>),
      FlagValue(<<"f">>, <<"N", "a", "N">>), FlagValue(<<"s">>, <<"a">>),
      FlagValue(<<"k">>, <<"A", "Q", "I", "D">>), FlagValue(<<"l">>, <<"a">>) }

InitPrefs ==
    \E args \in CommandLines({prog}, PrefTokens, MaxArgs) :
        Start(DefaultAndCopy, PrefRegistry, <<>>, PrefsPath, NoFile, args)

SpecPrefs == InitPrefs /\ [][Next]_vars

(***************************************************************************)
(* SpecSet: one option of any kind and default, on which the program       *)
(* calls Set with the captured default text or with another text           *)
(***************************************************************************)
FloatOf(t) == FloatVal(ParseFloat(t).f)

SetDefaults ==
    << BoolVal(FALSE), BoolVal(TRUE),
       IntVal(0), IntVal(5), IntVal(-3), IntVal(1000000), IntSat(1), IntSat(-1),
       FloatOf(<<"0">>), FloatOf(<<"1", ".", "5">>), FloatOf(<<"-", "2", ".", "5">>),
       FloatOf(Million), FloatOf(<<"1", "e", "-", "7">>), FloatOf(<<"N", "a", "N">>),
       FloatOf(<<"I", "n", "f">>), FloatOf(<<"-", "I", "n", "f">>),
       StringVal(<<>>), StringVal(<<"a">>), StringVal(TrueText),
       ByteNil, ByteVal(<<>>), ByteVal(<<1, 2, 3>>), ByteVal(<<255>>),
       ListNil, ListVal(<<>>), ListVal(<< <<"d">> >>), ListVal(<< <<"a">>, <<"b">> >>) >>

SetTexts == { TrueText, <<"5">>, <<"x">>, <<"A", "Q", "I", "D">> }

InitSet ==
    \E d \in DOMAIN SetDefaults :
        Start(<<>>, addOption(<<>>, <<"o">>, <<>>, SetDefaults[d], Standard), <<>>, <<>>,
              NoFile, <<prog>>)

SetStep ==
    \E k \in DOMAIN optionList :
        \E s \in SetTexts \cup {optionList[k].Default} :
            SetOption(k, s, Set(optionList[k].Value, s))

SpecSet == InitSet /\ [][SetStep]_vars

(***************************************************************************)
(* SpecSave: options with and without the Preference flag, all with an     *)
(* on-save callback, in a registry of distinct names and in one where a    *)
(* name was registered twice; command lines that set them and ask to save  *)
(***************************************************************************)
SaveOption(list, name, variable, flags) ==
    OnSave(OnChange(addOption(list, name, <<>>, variable, flags)))

SaveRegistries ==
    { SaveOption(SaveOption(SaveOption(<<>>,
          <<"b">>, BoolVal(FALSE), Preference),
          <<"s">>, StringVal(<<>>), Standard),
          <<"u">>, StringVal(<<"a">>), Preference + Required),
      SaveOption(SaveOption(<<>>,
          <<"v">>, BoolVal(FALSE), Preference),
          <<"v">>, StringVal(<<>>), Standard) }

SaveTokens ==
    { SaveOptionsFlag, Flag(<<"b">>), FlagValue(<<"s">>, <<"a">>),
      FlagValue(<<"u">>, <<"a">>), FlagValue(<<"u">>, <<"b">>), Flag(<<"v">>),
      FlagValue(<<"v">>, FalseText) }

InitSave ==
    \E opts \in SaveRegistries, args \in CommandLines({prog}, SaveTokens, MaxArgs) :
        Start(DefaultAndCopy, opts, <<>>, PrefsPath, NoFile, args)

SpecSave == InitSave /\ [][Next]_vars

(***************************************************************************)
(* SpecLoad: a program with a preferences file that an earlier run saved   *)
(* (or none), an integer and a Required string option, and command lines   *)
(* that set them or leave them alone                                       *)
(***************************************************************************)
LoadRegistry ==
    OnChange(addOption(OnChange(addOption(<<>>,
        <<"n">>, <<>>, IntVal(0), Preference)),
        <<"u">>, <<>>, StringVal(<<>>), Preference + Required))

DocN(n) == PutKey(EmptyDoc, <<"n">>, Get(IntVal(n)))
DocU == PutKey(EmptyDoc, <<"u">>, Get(StringVal(<<"a">>)))

LoadFiles ==
    { NoFile, FileOf(DocN(5)), FileOf(DocU), FileOf(PutKey(DocU, <<"n">>, Get(IntVal(5)))),
      FileOf(DocN(1000000)) }

LoadTokens ==
    { FlagValue(<<"n">>, <<"7">>), FlagValue(<<"u">>, <<"b">>), FlagValue(<<"u">>, <<>>),
      Flag(<<"y">>), copy }

InitLoad ==
    \E file \in LoadFiles, args \in CommandLines({prog}, LoadTokens, MaxArgs) :
        Start(DefaultAndCopy, LoadRegistry, <<>>, PrefsPath, file, args)

SpecLoad == InitLoad /\ [][Next]_vars

(***************************************************************************)
(* SpecRegister: main registers up to MaxOptions options, of two names and *)
(* two kinds, and then calls Parse                                         *)
(***************************************************************************)
\* a call of BoolOption, StringOption, ... before the first Parse
AddOption(name, variable, flags) ==
    /\ pc = "idle"
    /\ calls = 0
    /\ Len(optionList) < MaxOptions
    /\ optionList' = OnChange(addOption(optionList, name, <<>>, variable, flags))
    /\ registered' = optionList'
    /\ UNCHANGED <<commandList, Title, OptionsFile, fileData, osArgs, Args, pc, i,
                   stopParsing, doSave, doShow, ret, called, changed, saved, stdout, calls>>

RegisterOption ==
    \E name \in {<<"x">>, <<"y">>}, d \in 1..2 :
        AddOption(name, <<BoolVal(FALSE), StringVal(<<>>)>>[d], Standard)

RegisterTokens == { Flag(<<"x">>), FlagValue(<<"y">>, <<"a">>), copy }

InitRegister ==
    \E args \in CommandLines({prog}, RegisterTokens, MaxCommandArgs) :
        Start(DefaultAndCopy, <<>>, <<>>, <<>>, NoFile, args)

NextRegister == RegisterOption \/ ParseBegin \/ ParseScan \/ ParseFinish

SpecRegister == InitRegister /\ [][NextRegister]_vars

(***************************************************************************)
(* SpecVersion: command lines with -version, with and without Title, for   *)
(* a program that registered a boolean option named version                *)
(***************************************************************************)
VersionOptions == OnChange(addOption(OptionX, <<"v", "e", "r", "s", "i", "o", "n">>, <<>>,
                                     BoolVal(FALSE), Standard))

VersionTokens == { VersionFlag, DashDash, Flag(<<"x">>), copy }

InitVersion ==
    \E args \in CommandLines({prog}, VersionTokens, MaxArgs), title \in {<<>>, TitleText} :
        Start(DefaultAndCopy, VersionOptions, title, <<>>, NoFile, args)

SpecVersion == InitVersion /\ [][Next]_vars

(***************************************************************************)
(* SpecProgram: command lines whose element 0, the program name, is a      *)
(* plain name or has the text of a flag (a login shell is started as       *)
(* "-bash")                                                                *)
(***************************************************************************)
ProgramNames ==
    { prog, Flag(prog), Flag(<<"x">>), <<"-", "h">>, DashDash, VersionFlag, SaveOptionsFlag }

ProgramTokens == { copy, Flag(<<"x">>), <<"1">> }

InitProgram ==
    \E args \in CommandLines(ProgramNames, ProgramTokens, MaxArgs) :
        Start(DefaultAndCopy, OptionX, TitleText, PrefsPath, NoFile, args)

SpecProgram == InitProgram /\ [][Next]_vars

(***************************************************************************)
(* SpecInt: an integer option set with -n=<text> for texts of the three    *)
(* bases, with and without sign, inside and outside the int64 range, and   *)
(* with digits the base does not have                                      *)
(***************************************************************************)
OptionN == OnChange(addOption(<<>>, <<"n">>, <<>>, IntVal(0), Standard))

\* texts of small numbers
IntSmallTexts ==
    { <<"0", "x", "1", "A">>,
      <<"0", "X", "1", "f">>,
      <<"0", "1", "7">>,
      <<"4", "2">>,
      <<"-", "4", "2">>,
      <<"-", "0", "x", "1", "0">>,
      <<"+", "0", "1", "0">>,
      <<"0">> }

\* texts of numbers below -2^63 or above 2^63 - 1
IntRangeTexts ==
    { <<"9", "9", "9", "9", "9", "9", "9", "9", "9", "9", "9", "9", "9", "9", "9", "9", "9", "9", "9", "9">>,
      <<"9", "2", "2", "3", "3", "7", "2", "0", "3", "6", "8", "5", "4", "7", "7", "5", "8", "0", "8">>,
      <<"-", "9", "2", "2", "3", "3", "7", "2", "0", "3", "6", "8", "5", "4", "7", "7", "5", "8", "0", "9">>,
      <<"0", "x", "8", "0", "0", "0", "0", "0", "0", "0", "0", "0", "0", "0", "0", "0", "0", "0">>,
      <<"-", "0", "1", "0", "0", "0", "0", "0", "0", "0", "0", "0", "0", "0", "0", "0", "0", "0", "0", "0", "0", "0", "0", "1">> }

\* texts that are no number in their base
IntSyntaxTexts ==
    { <<"0", "8">>,
      <<"0", "x">>,
      <<"4", "a">> }

IntTokens == { FlagValue(<<"n">>, t) : t \in IntSmallTexts \cup IntRangeTexts \cup IntSyntaxTexts }

InitInt ==
    \E args \in CommandLines({prog}, IntTokens, MaxCommandArgs) :
        Start(DefaultAndCopy, OptionN, <<>>, <<>>, NoFile, args)

SpecInt == InitInt /\ [][Next]_vars

(***************************************************************************)
(* SpecArgs: command lines that mix plain tokens with "--", a sentinel,    *)
(* a boolean and a string option, with and without a value after them      *)
(***************************************************************************)
ArgsOptions == OnChange(addOption(OptionX, <<"a">>, <<>>, StringVal(<<>>), Standard))

ArgsTokens ==
    { DashDash, SaveOptionsFlag, Flag(<<"x">>), Flag(<<"a">>), FlagValue(<<"a">>, <<"1">>),
      <<"1">>, FalseText, copy }

InitArgs ==
    \E args \in CommandLines({prog}, ArgsTokens, MaxArgs) :
        Start(DefaultAndCopy, ArgsOptions, <<>>, PrefsPath, NoFile, args)

SpecArgs == InitArgs /\ [][Next]_vars

(***************************************************************************)
(* SpecErrors: command lines on which an unknown option or a text that is  *)
(* no integer follows tokens that set options                              *)
(***************************************************************************)
ErrorOptions == OnChange(addOption(OptionN, <<"s">>, <<>>, StringVal(<<>>), Standard))

ErrorTokens ==
    { FlagValue(<<"n">>, <<"5">>), FlagValue(<<"n">>, <<"a", "b", "c">>),
      FlagValue(<<"s">>, <<"a">>), Flag(<<"y">>), copy }

InitErrors ==
    \E args \in CommandLines({prog}, ErrorTokens, MaxArgs) :
        Start(DefaultAndCopy, ErrorOptions, <<>>, <<>>, NoFile, args)

SpecErrors == InitErrors /\ [][Next]_vars

(***************************************************************************)
(* SpecDispatch: command lines with a command name, a Required option,     *)
(* help, version, show and save requests and an unknown option             *)
(***************************************************************************)
DispatchOptions == OnChange(addOption(OptionX, <<"u">>, <<>>, StringVal(<<>>), Required))

DispatchTokens ==
    { copy, FlagValue(<<"u">>, <<"a">>), <<"-", "h">>, VersionFlag, SaveOptionsFlag,
      ShowOptionsFlag, Flag(<<"y">>) }

InitDispatch ==
    \E args \in CommandLines({prog}, DispatchTokens, MaxArgs) :
        Start(DefaultAndCopy, DispatchOptions, TitleText, PrefsPath, NoFile, args)

SpecDispatch == InitDispatch /\ [][Next]_vars

(***************************************************************************)
(* SpecCoerce: a preferences file whose keys l, n and z hold JSON values   *)
(* of every type, loaded into a string list that holds "d" and an integer  *)
(* that holds 3; z names no option                                         *)
(***************************************************************************)
CoerceRegistry ==
    OnChange(addOption(OnChange(addOption(<<>>,
        <<"l">>, <<>>, ListVal(<< <<"d">> >>), Preference)),
        <<"n">>, <<>>, IntVal(3), Preference))

\* the values of key l, the first for no key
CoerceList ==
    << JUnsupported, JNull, JObject, JArr(<<>>), JArr(<<JStr(<<"a">>)>>),
       JArr(<<JStr(<<"a">>), JStr(<<"b">>)>>), JArr(<<Get(IntVal(1))>>), JStr(<<"x">>) >>

\* the values of key n, the first for no key
CoerceInt ==
    << JUnsupported, JNull, JObject, Get(IntVal(5)), JStr(<<"7">>), JStr(<<"a", "b", "c">>),
       JArr(<<JStr(<<"1">>), JStr(<<"2">>)>>), JBool(TRUE) >>

CoerceDoc(l, n, z) ==
    LET withL == IF l = 1 THEN EmptyDoc ELSE PutKey(EmptyDoc, <<"l">>, CoerceList[l])
        withN == IF n = 1 THEN withL ELSE PutKey(withL, <<"n">>, CoerceInt[n])
    IN IF z THEN PutKey(withN, <<"z">>, JStr(<<"a">>)) ELSE withN

CoerceTokens == { FlagValue(<<"n">>, <<"7">>), copy }

InitCoerce ==
    \E l \in DOMAIN CoerceList, n \in DOMAIN CoerceInt, z \in BOOLEAN,
       args \in CommandLines({prog}, CoerceTokens, MaxCommandArgs) :
        Start(DefaultAndCopy, CoerceRegistry, <<>>, PrefsPath, FileOf(CoerceDoc(l, n, z)), args)

SpecCoerce == InitCoerce /\ [][Next]_vars

(***************************************************************************)
(* SpecTotal: command lines with the empty token in every place, after an  *)
(* option token of a boolean, a list and a string option and in literal    *)
(* mode, and preferences files with arrays of strings and of numbers       *)
(***************************************************************************)
TotalRegistry ==
    OnChange(addOption(OnChange(addOption(OptionX,
        <<"l">>, <<>>, ListNil, Preference)),
        <<"a">>, <<>>, StringVal(<<>>), Standard))

TotalFiles ==
    { NoFile,
      FileOf(PutKey(EmptyDoc, <<"l">>, JArr(<<JStr(<<"a">>)>>))),
      FileOf(PutKey(EmptyDoc, <<"l">>, JArr(<<JStr(<<"a">>), Get(IntVal(1))>>))),
      FileOf(PutKey(EmptyDoc, <<"l">>, JArr(<<JBool(TRUE)>>))) }

TotalTokens == { <<>>, Flag(<<"x">>), Flag(<<"l">>), Flag(<<"a">>), DashDash, copy }

InitTotal ==
    \E file \in TotalFiles, args \in CommandLines({prog}, TotalTokens, MaxArgs) :
        Start(DefaultAndCopy, TotalRegistry, <<>>, PrefsPath, file, args)

SpecTotal == InitTotal /\ [][Next]_vars

(***************************************************************************)
(* SpecFailedSet: a boolean, an integer, a float and a byte option that    *)
(* hold values other than their zero values, with command lines and        *)
(* preferences files that give them texts their Set does not accept        *)
(***************************************************************************)
FailedSetRegistry ==
    PrefOption(PrefOption(PrefOption(PrefOption(<<>>,
        <<"b">>, BoolVal(TRUE)),
        <<"n">>, IntVal(5)),
        <<"f">>, FloatOf(<<"1", ".", "5">>)),
        <<"k">>, ByteVal(<<1, 2, 3>>))

FailedSetFiles ==
    { NoFile,
      FileOf(PutKey(EmptyDoc, <<"b">>, JStr(<<"x">>))),
      FileOf(PutKey(EmptyDoc, <<"n">>, JStr(<<"a", "b", "c">>))),
      FileOf(PutKey(EmptyDoc, <<"n">>, Get(IntVal(1000000)))),
      FileOf(PutKey(EmptyDoc, <<"f">>, JStr(<<"x">>))),
      FileOf(PutKey(EmptyDoc, <<"k">>, JStr(<<"x">>))) }

FailedSetTokens ==
    { FlagValue(<<"b">>, <<"x">>), FlagValue(<<"n">>, <<"a", "b", "c">>),
      FlagValue(<<"n">>, <<"7">>), FlagValue(<<"f">>, <<"x">>), FlagValue(<<"k">>, <<"x">>),
      copy }

InitFailedSet ==
    \E file \in FailedSetFiles, args \in CommandLines({prog}, FailedSetTokens, MaxCommandArgs) :
        Start(DefaultAndCopy, FailedSetRegistry, <<>>, PrefsPath, file, args)

SpecFailedSet == InitFailedSet /\ [][Next]_vars

(***************************************************************************)
(* Properties                                                              *)
(***************************************************************************)
\* the Parse call scanned every token and went on to resolve a command
\* (no error, no help or version exit, no show or save request)
ReachedDispatch ==
    pc = "done" /\ i = Len(osArgs) /\ ~doShow /\ ~doSave /\ ret.err # "load"

RequiredAtDefault ==
    {k \in DOMAIN optionList :
        HasFlag(optionList[k].Flags, Required)
        /\ String(optionList[k].Value) = optionList[k].Default}

NamedCommands ==
    {k \in DOMAIN commandList : Len(Args) >= 2 /\ commandList[k].Command = Args[2]}

DefaultCommands == {k \in DOMAIN commandList : commandList[k].Command = <<>>}

\* the handlers this Parse call invoked are exactly the handler of command k
\* (none when the command was registered without a function)
InvokedOnly(k) == called = IF commandList[k].Function THEN <<k>> ELSE <<>>

\* C1: when the scan finished without error and without a help, version,
\* show or save request and every Required option is set, Parse invokes the
\* handler of the command named by Args[1] if there is one, whatever its
\* place in the registration order, and otherwise that of the empty-named
\* command if one is registered.
C1_CommandResolution ==
    (ReachedDispatch /\ RequiredAtDefault = {}) =>
        IF NamedCommands # {}
        THEN \E k \in NamedCommands : InvokedOnly(k) /\ ret = ReturnedNil
        ELSE DefaultCommands # {} =>
                 \E k \in DefaultCommands : InvokedOnly(k) /\ ret = ReturnedNil

\* C1 witness: copy, registered after the default command, was named on
\* the command line and its handler ran
C1_Witness ==
    /\ ReachedDispatch
    /\ Len(commandList) = 2
    /\ commandList[1].Command = <<>>
    /\ commandList[2].Command = copy
    /\ osArgs = <<prog, copy, Flag(<<"x">>)>>
    /\ called = <<2>>
    /\ optionList[1].Value.b

\* C5: when the scan finished without error, without show or save, and a
\* command resolves: if some Required option (of any group) has its default
\* text, Parse returns the missing-required-option error naming such an
\* option and invokes no handler; otherwise the check passes.
C5_RequiredCheck ==
    (ReachedDispatch /\ (NamedCommands # {} \/ DefaultCommands # {})) =>
        IF RequiredAtDefault # {}
        THEN /\ ret.err = "Missing required option"
             /\ \E k \in RequiredAtDefault : ret.name = optionList[k].Name
             /\ called = <<>>
        ELSE ret = ReturnedNil

\* C5 witness: the Required option n of group move is at its default while
\* copy resolves, after -n=0 supplied the default text explicitly
C5_Witness ==
    /\ ReachedDispatch
    /\ NamedCommands # {}
    /\ Args[2] = copy
    /\ changed = <<<<"n">>>>
    /\ ret = Returned("Missing required option", <<"n">>, <<>>)
    /\ called = <<>>

\* the tokens Parse intercepts before the option branch
BuiltIns ==
    HelpAliases \cup {VersionFlag, DashDash}
    \cup (IF OptionsFile # <<>> THEN {SaveOptionsFlag, ShowOptionsFlag} ELSE {})

\* the loop is at an option token that names option k, outside literal mode
AtOptionToken(k) ==
    /\ pc = "scan"
    /\ i < Len(osArgs)
    /\ ~stopParsing
    /\ osArgs[i + 1] # <<>>
    /\ Head(osArgs[i + 1]) = "-"
    /\ osArgs[i + 1] \notin BuiltIns
    /\ FindOption(optionList, optionList[k].Name) = k

\* the next token exists and does not start with "-"
NextIsPlain ==
    /\ i + 2 <= Len(osArgs)
    /\ (osArgs[i + 2] = <<>> \/ Head(osArgs[i + 2]) # "-")

\* the loop goes on at token number n with option k holding v, Args as before
ScanGoesOn(k, n, v) ==
    /\ pc' = "scan"
    /\ i' = n
    /\ Args' = Args
    /\ optionList'[k].Value = v

\* C2: at a boolean option token -name without "=": a next token that does
\* not start with "-" and is a boolean literal is consumed as the value; a
\* next token that does not start with "-" and is no boolean literal leaves
\* the option true and is scanned as a token of its own; with no next token
\* or one that starts with "-" the option is true.
C2_BooleanLookahead ==
    [][\A k \in DOMAIN optionList :
          (/\ AtOptionToken(k)
           /\ osArgs[i + 1] = Flag(optionList[k].Name)
           /\ optionList[k].Value.kind = "bool")
          => IF NextIsPlain /\ osArgs[i + 2] \in BoolTrueTexts \cup BoolFalseTexts
             THEN ScanGoesOn(k, i + 2, BoolVal(osArgs[i + 2] \in BoolTrueTexts))
             ELSE ScanGoesOn(k, i + 1, BoolVal(TRUE))]_vars

\* C2 witness: -x false consumed the next token and set x to false
C2_Witness ==
    /\ osArgs = <<prog, Flag(<<"x">>), FalseText, copy>>
    /\ pc = "scan"
    /\ i = 3
    /\ changed = <<<<"x">>>>
    /\ ~optionList[1].Value.b
    /\ Args = <<prog>>

\* C3: once "--" was seen outside literal mode it is consumed, and from then
\* on every token, whatever its text, is appended to Args in order: it is
\* not looked up, changes no option, fires no callback, and causes no help
\* or version exit and no error.
C3_LiteralMode ==
    [][(pc = "scan" /\ i < Len(osArgs))
       => /\ (~stopParsing /\ osArgs[i + 1] = <<"-", "-">>)
             => /\ pc' = "scan" /\ stopParsing' /\ i' = i + 1
                /\ UNCHANGED <<Args, optionList, changed, stdout, ret, doSave, doShow>>
          /\ stopParsing
             => /\ pc' = "scan" /\ stopParsing' /\ i' = i + 1
                /\ Args' = Append(Args, osArgs[i + 1])
                /\ UNCHANGED <<optionList, changed, stdout, ret, doSave, doShow>>]_vars

\* C3 witness: [prog, -a, 1, --, -b] ends with a = "1" and -b in Args
C3_Witness ==
    /\ osArgs = <<prog, Flag(<<"a">>), <<"1">>, DashDash, Flag(<<"b">>)>>
    /\ pc = "done"
    /\ Args = <<prog, Flag(<<"b">>)>>
    /\ optionList[1].Value = StringVal(<<"1">>)
    /\ changed = <<<<"a">>>>
    /\ ret = ReturnedNil
    /\ called = <<1>>

\* C8: a help alias reached outside literal mode prints the usage and makes
\* Parse return nil at once: no handler, nothing shown or saved, no
\* Required check, and the rest of the command line is not read.
C8_HelpAlias ==
    [][(/\ pc = "scan" /\ i < Len(osArgs) /\ ~stopParsing
        /\ osArgs[i + 1] \in {<<"-", "h">>, <<"-", "H">>, <<"-", "?">>})
       => /\ pc' = "done"
          /\ ret' = ReturnedNil
          /\ stdout' = Append(stdout, "usage")
          /\ UNCHANGED <<optionList, Args, i, called, saved, fileData, changed>>]_vars

\* C8 witness: -H after the save sentinel and -x, with the Required option
\* unset: Parse returned nil, nothing was written and no handler ran
C8_Witness ==
    /\ osArgs = <<prog, SaveOptionsFlag, Flag(<<"x">>), <<"-", "H">>, copy>>
    /\ pc = "done"
    /\ doSave
    /\ i = 3
    /\ ret = ReturnedNil
    /\ stdout = <<"usage">>
    /\ fileData = NoFile
    /\ called = <<>>
    /\ Args = <<prog>>
    /\ RequiredAtDefault # {}

\* the place of the first "=" in a text that has one
FirstEq(t) == CHOOSE k \in DOMAIN t : t[k] = "=" /\ \A j \in 1..(k - 1) : t[j] # "="

HasEq(tok) == "=" \in Range(tok)
NameBeforeEq(tok) == Take(Tail(tok), FirstEq(Tail(tok)) - 1)
ValueAfterEq(tok) == Drop(Tail(tok), FirstEq(Tail(tok)))

\* value v is applied to option k: Reset for the empty text, Set otherwise,
\* with the on-change callback, or the invalid-value error when Set fails
ValueApplied(k, v, r) ==
    IF v = <<>>
    THEN /\ ScanGoesOn(k, i + 1, Reset(optionList[k].Value))
         /\ changed' = doChange(optionList[k], changed)
    ELSE IF r.err
    THEN pc' = "done" /\ ret' = Returned("Invalid value", optionList[k].Name, v)
    ELSE /\ ScanGoesOn(k, i + 1, r.v)
         /\ changed' = doChange(optionList[k], changed)

\* C9: for an option token with "=", the name is the text between the "-"
\* and the first "=", and the value applied is all of the text after that
\* first "=", further "=" included.
C9_SplitAtFirstEq ==
    [][\A k \in DOMAIN optionList :
          (/\ AtOptionToken(k)
           /\ HasEq(osArgs[i + 1])
           /\ NameBeforeEq(osArgs[i + 1]) = optionList[k].Name)
          => ValueApplied(k, ValueAfterEq(osArgs[i + 1]),
                          Set(optionList[k].Value, ValueAfterEq(osArgs[i + 1])))]_vars

\* the next token is absent or starts with "-"
NoValueFollows ==
    i + 2 > Len(osArgs) \/ (osArgs[i + 2] # <<>> /\ Head(osArgs[i + 2]) = "-")

IsPrefix(a, b) == Len(a) <= Len(b) /\ Take(b, Len(a)) = a

\* the loop is at a token of string-list option k
AtListToken(k) ==
    /\ AtOptionToken(k)
    /\ optionList[k].Value.kind = "list"
    /\ \/ osArgs[i + 1] = Flag(optionList[k].Name)
       \/ HasEq(osArgs[i + 1]) /\ NameBeforeEq(osArgs[i + 1]) = optionList[k].Name

\* C4: an occurrence of a string-list option with a non-empty value
\* (-tag v or -tag=v) appends exactly v; -tag= empties the list; no other
\* form removes elements.
C4_StringList ==
    [][\A k \in DOMAIN optionList :
          AtListToken(k)
          => IF HasEq(osArgs[i + 1])
             THEN IF ValueAfterEq(osArgs[i + 1]) = <<>>
                  THEN optionList'[k].Value.s = <<>>
                  ELSE optionList'[k].Value.s =
                           Append(optionList[k].Value.s, ValueAfterEq(osArgs[i + 1]))
             ELSE IF NextIsPlain /\ osArgs[i + 2] # <<>>
                  THEN /\ optionList'[k].Value.s =
                              Append(optionList[k].Value.s, osArgs[i + 2])
                       /\ i' = i + 2
                  ELSE IsPrefix(optionList[k].Value.s, optionList'[k].Value.s)]_vars

\* C10: a bare string-list token with no value following leaves the list
\* equal to its registered default contents, whatever it held before.
C10_BareListRestoresDefault ==
    [][\A k \in DOMAIN optionList :
          (/\ AtListToken(k)
           /\ osArgs[i + 1] = Flag(optionList[k].Name)
           /\ NoValueFollows)
          => /\ pc' = "scan"
             /\ i' = i + 1
             /\ optionList'[k].Value.s = registered[k].Value.s]_vars

\* two values of a kind are equal (a nil and an empty slice hold the same)
SameValue(a, b) ==
    /\ a.kind = b.kind /\ a.b = b.b /\ a.n = b.n /\ a.sat = b.sat
    /\ a.f = b.f /\ a.s = b.s

\* loading file into the registry as registered gave r: no error, every
\* Preference option of opts that differs from its default is in the
\* document and comes back with its value, every other option is absent
\* and stays at its default
RoundTrips(opts, file, r) ==
    /\ file.valid
    /\ ~r.err
    /\ ~r.panic
    /\ \A k \in DOMAIN opts :
          IF HasFlag(opts[k].Flags, Preference) /\ String(opts[k].Value) # opts[k].Default
          THEN /\ opts[k].Name \in DOMAIN file.doc
               /\ SameValue(r.opts[k].Value, opts[k].Value)
          ELSE /\ opts[k].Name \notin DOMAIN file.doc
               /\ r.opts[k].Value = registered[k].Value

\* C6: whatever the options hold when Parse saves the preferences, loading
\* the written document into a fresh registry of the same definitions
\* succeeds and reproduces every saved option, and omits the others.
C6_PreferencesRoundTrip ==
    [][(pc = "scan" /\ i >= Len(osArgs) /\ doSave /\ ~doShow)
       => RoundTrips(optionList, fileData', loadOptions(registered, fileData', <<>>))]_vars

\* the step is Set(Default) on option k
SetDefaultStep(k) ==
    /\ pc = "idle"
    /\ pc' = "idle"
    /\ optionList' =
           [optionList EXCEPT ![k].Value = Set(optionList[k].Value, optionList[k].Default).v]
    /\ ret' = IF Set(optionList[k].Value, optionList[k].Default).err
              THEN Returned("Invalid value", optionList[k].Name, optionList[k].Default)
              ELSE ReturnedNil

\* C7 as stated: for every kind, Set with the text String() gave for the
\* default succeeds and leaves the option equal to the default.
C7_AllKinds ==
    [][\A k \in DOMAIN optionList :
          SetDefaultStep(k)
          => ret' = ReturnedNil /\ SameValue(optionList'[k].Value, registered[k].Value)]_vars

\* C7: for a boolean, integer, float, string or byte-blob option, Set with
\* the captured default text succeeds and leaves the option equal to its
\* registered default; for a string-list option Set succeeds and appends
\* the text as one more element.
C7_SetDefaultText ==
    [][\A k \in DOMAIN optionList :
          SetDefaultStep(k)
          => /\ ret' = ReturnedNil
             /\ IF optionList[k].Value.kind = "list"
                THEN optionList'[k].Value.s =
                         Append(optionList[k].Value.s, optionList[k].Default)
                ELSE SameValue(optionList'[k].Value, registered[k].Value)]_vars

\* C7 witness: the list registered as ["d"] after Set with its default text
C7_Witness ==
    /\ pc = "idle"
    /\ ret = ReturnedNil
    /\ registered[1].Value.kind = "list"
    /\ registered[1].Value.s = << <<"d">> >>
    /\ optionList[1].Value.s = << <<"d">>, MarshalStrings(<< <<"d">> >>) >>

\* option k is to be serialised: Preference flag and text unlike the default
Included(k) ==
    /\ HasFlag(optionList[k].Flags, Preference)
    /\ String(optionList[k].Value) # optionList[k].Default

\* the names of the included options that have an on-save callback, in
\* registration order
RECURSIVE IncludedHooks(_)
IncludedHooks(k) ==
    IF k > Len(optionList) THEN <<>>
    ELSE (IF Included(k) /\ optionList[k].onSave THEN <<optionList[k].Name>> ELSE <<>>)
         \o IncludedHooks(k + 1)

\* Parse is about to save the preferences
AtSave == pc = "scan" /\ i >= Len(osArgs) /\ ~doShow /\ doSave

\* C11: the document jsonOptions produces has a key for an option exactly
\* when the option has the Preference flag and its text differs from its
\* default text, and the on-save callbacks invoked are exactly those of the
\* included options, once each.
C11_SerialisationFilter ==
    [][(AtSave /\ fileData'.valid)
       => /\ \A k \in DOMAIN optionList :
                 (optionList[k].Name \in DOMAIN fileData'.doc) <=> Included(k)
          /\ saved' = saved \o IncludedHooks(1)]_vars

\* the places of the argument tokens -name and -name=value for option k
NamingTokens(k) ==
    {j \in DOMAIN osArgs :
        /\ osArgs[j] # <<>>
        /\ Head(osArgs[j]) = "-"
        /\ \/ osArgs[j] = Flag(optionList[k].Name)
           \/ HasEq(osArgs[j]) /\ NameBeforeEq(osArgs[j]) = optionList[k].Name}

LastNaming(k) == CHOOSE j \in NamingTokens(k) : \A m \in NamingTokens(k) : m <= j

\* the value text gives to an option of the kind of option k
ValueOfText(k, text) ==
    IF text = <<>> THEN Reset(registered[k].Value) ELSE Set(registered[k].Value, text).v

\* option k is a scalar whose saved value is in the preferences file
HasSavedScalar(k) ==
    /\ optionList[k].Value.kind \in {"bool", "int", "float", "string"}
    /\ fileData.exists /\ fileData.valid
    /\ optionList[k].Name \in DOMAIN fileData.doc
    /\ fileData.doc[optionList[k].Name].t \in {"bool", "number", "string"}

\* C12: with OptionsFile set the saved document is applied before the
\* first token is read: when the handler runs, a scalar option with a saved
\* value holds that value if no argument token names it (so a Required
\* option can be satisfied by its saved value), and holds the value of the
\* command line if argument tokens set it.
C12_LoadBeforeScan ==
    (pc = "done" /\ called # <<>>)
    => \A k \in DOMAIN optionList :
           HasSavedScalar(k)
           => IF NamingTokens(k) = {}
              THEN optionList[k].Value =
                       ValueOfText(k, Sprintf(fileData.doc[optionList[k].Name]))
              ELSE optionList[k].Value =
                       ValueOfText(k, ValueAfterEq(osArgs[LastNaming(k)]))

\* C12 witness: n is saved as 5 and set to 7 on the command line, the
\* Required option u is only in the file: the handler of copy runs with
\* n = 7 and u = "a"
C12_Witness ==
    /\ pc = "done"
    /\ called = <<2>>
    /\ fileData = FileOf(PutKey(DocU, <<"n">>, Get(IntVal(5))))
    /\ osArgs = <<prog, copy, FlagValue(<<"n">>, <<"7">>)>>
    /\ optionList[1].Value = IntVal(7)
    /\ optionList[2].Value = StringVal(<<"a">>)

\* no registered command resolves for the positional arguments
NoCommandResolves == NamedCommands = {} /\ DefaultCommands = {}

\* C13: without a show or save request the Required check comes before the
\* command resolution: with a Required option at its default text and no
\* command that resolves, Parse returns the missing-required-option error.
C13_RequiredBeforeResolution ==
    (ReachedDispatch /\ RequiredAtDefault # {} /\ NoCommandResolves)
    => ret.err = "Missing required option"

\* C14: registering a name that is already registered fails, so the names
\* in optionList are pairwise distinct in every reachable state.
C14_UniqueOptionNames ==
    \A j, k \in DOMAIN optionList : j # k => optionList[j].Name # optionList[k].Name

\* C14 witness: x was registered as a boolean and again as a string, and
\* the token -x set the first of the two
C14_Witness ==
    /\ Len(optionList) = 2
    /\ optionList[1].Name = <<"x">> /\ optionList[1].Value = BoolVal(TRUE)
    /\ optionList[2].Name = <<"x">> /\ optionList[2].Value = StringVal(<<>>)
    /\ pc = "done"

\* C15: the -version flag is enabled by Title: with a Title, a -version
\* token outside literal mode displays Title and makes Parse return nil with
\* no handler called; with an empty Title the token is not a built-in and
\* is processed as the option token of the option named version.
C15_VersionByTitle ==
    [][(pc = "scan" /\ i < Len(osArgs) /\ ~stopParsing /\ osArgs[i + 1] = VersionFlag)
       => IF Title # <<>>
          THEN /\ pc' = "done"
               /\ ret' = ReturnedNil
               /\ stdout' = Append(stdout, "title")
               /\ UNCHANGED <<optionList, Args, called, saved, fileData, changed>>
          ELSE Scanned(ScanOption(Frame, osArgs))]_vars

\* C16: element 0 of the argument list is not scanned for flags: whatever
\* its text, the first iteration only makes it Args[0]; it is no help
\* alias, no "--", no sentinel and no option token.
C16_ProgramNameSkipped ==
    [][(pc = "scan" /\ i = 0 /\ i < Len(osArgs))
       => /\ pc' = "scan"
          /\ i' = 1
          /\ Args' = <<osArgs[1]>>
          /\ UNCHANGED <<optionList, changed, stdout, ret, stopParsing, doSave, doShow>>]_vars

\* the digits of an integer text after its sign
Unsigned(t) == IF Head(t) \in {"+", "-"} THEN Tail(t) ELSE t

\* the base an integer text is read in: 16 after "0x" or "0X", otherwise 8
\* after a leading "0", otherwise 10
BaseOf(t) ==
    IF Len(t) > 1 /\ t[1] = "0" /\ t[2] \in {"x", "X"} THEN 16
    ELSE IF t[1] = "0" THEN 8 ELSE 10

\* the number a digit text writes in a base, the last digit weighing one
RECURSIVE Weighed(_, _)
Weighed(digs, base) ==
    IF digs = <<>> THEN 0
    ELSE Weighed(Take(digs, Len(digs) - 1), base) * base + DigitVal(digs[Len(digs)])

\* the number an integer text writes
NumberOf(t) ==
    LET u == Unsigned(t)
        m == Weighed(IF BaseOf(u) = 16 THEN Drop(u, 2) ELSE u, BaseOf(u))
    IN IF Head(t) = "-" THEN 0 - m ELSE m

\* the loop is at the token -n=<text>
AtIntToken(text) ==
    /\ pc = "scan"
    /\ i < Len(osArgs)
    /\ osArgs[i + 1] = FlagValue(<<"n">>, text)

NextTokenApplied ==
    /\ ~HasEq(osArgs[i + 1])
    /\ NextIsPlain
    /\ \E k \in DOMAIN optionList :
           /\ optionList[k].Name = Tail(osArgs[i + 1])
           /\ optionList'[k].Value = Set(optionList[k].Value, osArgs[i + 2]).v

\* the token at hand is consumed: as "--", as a sentinel, as an option
\* token, or as an option token together with the next token as its value
TokenConsumed ==
    /\ Args' = Args
    /\ \/ osArgs[i + 1] = DashDash /\ stopParsing' /\ i' = i + 1
       \/ osArgs[i + 1] \in {SaveOptionsFlag, ShowOptionsFlag} /\ i' = i + 1
       \/ osArgs[i + 1] \notin {DashDash, SaveOptionsFlag, ShowOptionsFlag}
          /\ (i' = i + 1 \/ (i' = i + 2 /\ NextTokenApplied))

\* the token at hand is left unparsed: it is appended to Args as it is
TokenUnparsed ==
    /\ Args' = Append(Args, osArgs[i + 1])
    /\ i' = i + 1
    /\ UNCHANGED <<optionList, changed, stopParsing, doSave, doShow>>

\* C18: Args holds exactly the tokens that were not parsed, in order:
\* every Parse call that reaches the loop starts it with Args empty, every
\* iteration that goes on either consumes its token (as "--", a sentinel,
\* an option token or an option token with its value) and leaves Args
\* alone, or appends exactly that token to Args, and nothing after the loop
\* changes Args.
C18_ArgsAreTheUnparsed ==
    [][/\ (pc # "scan" /\ pc' = "scan") => (Args' = <<>> /\ i' = 0)
       /\ (pc = "scan" /\ i < Len(osArgs) /\ pc' = "scan")
          => IF stopParsing \/ Head(osArgs[i + 1]) # "-"
             THEN TokenUnparsed
             ELSE TokenConsumed
       /\ (pc = "scan" /\ i >= Len(osArgs)) => Args' = Args]_vars

\* C18 witness: the second Parse of [prog, -x, copy, -a, 1] ended with the
\* two unparsed tokens in Args, copy not taken as the value of -x and 1
\* taken as the value of -a
C18_Witness ==
    /\ osArgs = <<prog, Flag(<<"x">>), copy, Flag(<<"a">>), <<"1">>>>
    /\ calls = 2
    /\ pc = "done"
    /\ i = Len(osArgs)
    /\ Args = <<prog, copy>>
    /\ optionList[1].Value = BoolVal(TRUE)
    /\ optionList[2].Value = StringVal(<<"1">>)

\* the iteration at hand ends Parse with the error of its token
TokenFails ==
    /\ pc = "scan"
    /\ i < Len(osArgs)
    /\ pc' = "done"
    /\ ret'.err \in {"Invalid option", "Invalid value"}

\* C19: parsing is not transactional: when a token makes Parse return an
\* error, the options keep the values the tokens before it gave them and
\* the callbacks those tokens fired stay fired, and neither the failing
\* token nor any token after it changes an option, fires a callback or
\* gets a handler called.
C19_NotTransactional ==
    [][TokenFails => /\ optionList' = optionList
                     /\ changed' = changed
                     /\ called' = <<>>]_vars

\* the step at hand calls a command handler
HandlerCalled == called' # called /\ called' # <<>>

\* C20: a Parse call invokes at most one handler, once, and only in the
\* step after the loop read every token, with no show or save request and
\* every Required option set; that step changes no option and fires no
\* callback, and a call that returned an error, printed the usage, the
\* title or the preferences, or was asked to show or save them has invoked
\* no handler.
C20_HandlerDispatch ==
    [][/\ HandlerCalled
          => /\ called = <<>>
             /\ Len(called') = 1
             /\ pc = "scan" /\ pc' = "done"
             /\ i = Len(osArgs)
             /\ ~doShow /\ ~doSave
             /\ RequiredAtDefault = {}
             /\ ret' = ReturnedNil
             /\ UNCHANGED <<optionList, changed, stdout, Args, fileData>>
       /\ (pc' = "done" /\ (ret' # ReturnedNil \/ stdout' # <<>> \/ doShow' \/ doSave'))
          => called' = <<>>]_vars

\* C20 witness: [prog, -u=a, copy] called the handler of copy, and only it,
\* after both tokens were read
C20_Witness ==
    /\ osArgs = <<prog, FlagValue(<<"u">>, <<"a">>), copy>>
    /\ pc = "done"
    /\ i = 3
    /\ called = <<2>>
    /\ changed = <<<<"u">>>>
    /\ ret = ReturnedNil
    /\ stdout = <<>>

\* the step at hand is the start of a Parse call that reads a preferences
\* file holding a JSON object
LoadStep ==
    /\ pc \in {"idle", "done"}
    /\ calls' = calls + 1
    /\ OptionsFile # <<>>
    /\ fileData.exists /\ fileData.valid

\* value v after the texts of elems were applied with Set, one after the other
RECURSIVE SetInOrder(_, _)
SetInOrder(v, elems) ==
    IF elems = <<>> THEN v
    ELSE Set(SetInOrder(v, Take(elems, Len(elems) - 1)), elems[Len(elems)].s).v

\* what the claim gives option k for the value t of its key
Coerced(k, t) ==
    CASE t.t = "null"   -> Reset(optionList[k].Value)
      [] t.t = "object" -> optionList[k].Value
      [] t.t = "array"  -> SetInOrder(Reset(optionList[k].Value), t.a)
      [] OTHER          -> Set(optionList[k].Value, Sprintf(t)).v

\* the on-change callbacks the claim has fired for the options k..Len
RECURSIVE CoercedChanges(_)
CoercedChanges(k) ==
    IF k > Len(optionList) THEN <<>>
    ELSE (IF /\ optionList[k].Name \in DOMAIN fileData.doc
             /\ fileData.doc[optionList[k].Name].t \notin {"null", "object"}
             /\ optionList[k].onChange
          THEN <<optionList[k].Name>> ELSE <<>>) \o CoercedChanges(k + 1)

\* C21: loading a preferences document treats each key that names an
\* option by the JSON type of its value alone: null resets the option, an
\* array resets it and applies its elements in order with Set (a list ends
\* holding exactly the elements) with one on-change call after them, an
\* object leaves it alone, a scalar is applied as text with Set and one
\* on-change call; options without a key keep their values; and every
\* document is loaded to an end.
C21_LoadCoercion ==
    [][LoadStep
       => /\ pc' # "panic"
          /\ pc' = "scan"
             => /\ \A k \in DOMAIN optionList :
                       optionList'[k] =
                           IF optionList[k].Name \in DOMAIN fileData.doc
                           THEN [optionList[k] EXCEPT
                                    !.Value = Coerced(k, fileData.doc[optionList[k].Name])]
                           ELSE optionList[k]
                /\ \A k \in DOMAIN optionList :
                       (/\ optionList[k].Value.kind = "list"
                        /\ optionList[k].Name \in DOMAIN fileData.doc
                        /\ fileData.doc[optionList[k].Name].t = "array")
                       => optionList'[k].Value.s =
                              [j \in DOMAIN fileData.doc[optionList[k].Name].a |->
                                  fileData.doc[optionList[k].Name].a[j].s]
                /\ changed' = CoercedChanges(1)]_vars

\* C22: Parse always ends with a result: whatever the tokens, the empty
\* one included, and whatever the arrays of the preferences document, no
\* Parse call aborts with a run-time panic.
C22_NoPanic == pc # "panic"

\* option k is left as it was and its on-change callback is not called
KeptAsItWas(k) ==
    /\ optionList'[k].Value = optionList[k].Value
    /\ Len(SelectSeq(changed', LAMBDA name : name = optionList[k].Name))
       = IF pc = "scan"
         THEN Len(SelectSeq(changed, LAMBDA name : name = optionList[k].Name))
         ELSE 0

\* the key of option k holds a scalar whose text the option's Set rejects
KeyRejected(k) ==
    /\ optionList[k].Name \in DOMAIN fileData.doc
    /\ fileData.doc[optionList[k].Name].t \in {"bool", "number", "string"}
    /\ Set(optionList[k].Value, Sprintf(fileData.doc[optionList[k].Name])).err

\* C23: a failed Set does not change the option: when the text of a token
\* or of a key of the preferences document is rejected by the Set of a
\* boolean, integer, float or byte option, the option holds afterwards the
\* value it held before, and its on-change callback is not called.
C23_FailedSetKeepsValue ==
    [][/\ (TokenFails /\ ret'.err = "Invalid value")
          => \A k \in DOMAIN optionList :
                 FindOption(optionList, ret'.name) = k => KeptAsItWas(k)
       /\ (LoadStep /\ pc' = "done")
          => \A k \in DOMAIN optionList : KeyRejected(k) => KeptAsItWas(k)]_vars

====
